---- MODULE Spec2Model ----
(***************************************************************************)
(* Verification model of rapidreport: the LinkedIn content pipeline        *)
(* (app/linkedin.py, app/web.py), the daily news digest                    *)
(* (app/news_scraper.py), the ClickUp task fetch (app/clickup.py) and the  *)
(* weekly report (app/report.py).                                          *)
(*                                                                         *)
(* The specifications of this module share its variables:                  *)
(*   SpecParse   _parse_drafts applied to bounded model-output texts       *)
(*   SpecTasks   get_completed_tasks / get_upcoming_tasks pagination       *)
(*   SpecDigest  run_daily_digest, scheduled job and manual refresh        *)
(*   Spec        generate_week_batch on existing weeks, with the handlers  *)
(*   SpecFresh   generate_week_batch on weeks it has to create             *)
(*   SpecRace    two concurrent generate_week_batch requests               *)
(*   SpecPair    two concurrent generate_week_batch requests and no other  *)
(*               writer of posts or weeks                                  *)
(*   SpecSolo    generate_week_batch runs one after another, no other      *)
(*               writer of the week                                        *)
(*   SpecReport  generate_weekly_report under its three triggers           *)
(*   SpecAuth    the write endpoints with and without the bearer secret    *)
(*   SpecCrud    the post and statistics routes on present and missing ids *)
(*   SpecWindow  the completed-task window and its bounds                  *)
(*   SpecMd      the report's _md_to_html on bounded texts                 *)
(*   SpecNews    fetch_all_news on bounded feeds                           *)
(*   SpecToken   _get_token under every outcome of its token sources       *)
(*   SpecAsk     POST /api/ask, two requests in flight                     *)
(*   SpecMail    get_emails following the continuation links, with         *)
(*               fairness on the steps of its loop                         *)
(***************************************************************************)
EXTENDS Integers, Sequences, FiniteSets, TLC

VARIABLES
  \* ---- _parse_drafts (SpecParse)
  text,        \* the model output handed to _parse_drafts: a sequence of tokens
  parsed,      \* outcome of _parse_drafts(text)
  ppc,         \* "start" | "done"
  \* ---- clickup pagination (SpecTasks)
  fn,          \* "completed" | "upcoming": which fetch is running
  responses,   \* what the collaborator answers for page 0, 1, 2, ...
  page,        \* params["page"]
  requested,   \* the page numbers requested so far, in order
  all_tasks,   \* the aggregated result list
  seen_ids,    \* get_upcoming_tasks' seen_ids
  tpc,         \* "loop" | "done" | "raised"
  \* ---- news digest (SpecDigest)
  digests,     \* the news_digests table: rows in insertion order, id = position
  today,       \* date.today()
  dpc,         \* per invocation: "idle" | "fetch" | "summarise" | "save" | "returned" | "raised"
  dlocal,      \* per invocation: the locals of run_daily_digest and what it did
  \* ---- posts and weeks (Spec)
  posts,       \* the linkedin_posts table, by id
  weeks,       \* the linkedin_weeks table, by week_start
  now,         \* datetime.now(), in days
  bpc,         \* per batch run: position in generate_week_batch
  blocal,      \* per batch run: the locals of generate_week_batch and what it did
  \* ---- weekly report (SpecReport, SpecAuth)
  reports,     \* the reports table: rows in insertion order
  rweek,       \* the week datetime.now() lies in
  rpc,         \* per trigger: position in generate_weekly_report
  rlocal,      \* per trigger: the locals of generate_weekly_report and what it did
  served,      \* the write endpoints that processed a request without the secret
  bstart,      \* per batch run: the week's row as it was when the run began
  stats,       \* the linkedin_stats table (SpecCrud)
  \* ---- the completed-task window (SpecWindow)
  wnow,        \* datetime.now(timezone.utc), in ms since Monday 1969-12-29 00:00 UTC
  done,        \* the date_done values (epoch ms) of the workspace's closed tasks
  strict,      \* how the collaborator reads date_done_gt and date_done_lt
  wres,        \* the last get_completed_tasks call: its bounds and its result
  \* ---- _md_to_html of the report (SpecMd)
  lines,       \* text.split("\n")
  mdi,         \* how many lines the loop has processed
  in_list,     \* the local in_list
  html_lines,  \* the local html_lines, flattened to tags and text
  mdpc,        \* position in _md_to_html
  \* ---- fetch_all_news (SpecNews)
  feeds,       \* per source: what feedparser.parse does for it
  nsrc,        \* how many sources the loop has processed
  all_articles,\* the local all_articles
  seen_urls,   \* the local seen_urls
  npc,         \* position in fetch_all_news
  \* ---- _get_token (SpecToken)
  tkin,        \* the environment and what each collaborator call does
  tkpc,        \* position in _get_token
  tkout,       \* the steps taken, and the token returned or the error raised
  \* ---- get_emails (SpecMail)
  mpages,      \* what the mailbox collaborator answers, page by page
  murl,        \* the local url: 0 the base url, k the link to page k, -1 None
  mparams,     \* whether the local params still holds the filter
  mlog,        \* the requests sent, in order
  all_emails,  \* the local all_emails
  mpc,         \* position in get_emails
  \* ---- POST /api/ask (SpecAsk)
  chat,        \* the chat_messages table: rows in creation order
  has_reports, \* whether the reports table holds a report
  cpc,         \* per request: position in ask
  clocal       \* per request: its session and what the LLM call does

parseVars == <<text, parsed, ppc>>
taskVars == <<fn, responses, page, requested, all_tasks, seen_ids, tpc>>
digestVars == <<digests, today, dpc, dlocal>>
liVars == <<posts, weeks, now, bpc, blocal>>
reportVars == <<reports, rweek, rpc, rlocal>>
windowVars == <<wnow, done, strict, wres>>
mdVars == <<lines, mdi, in_list, html_lines, mdpc>>
newsVars == <<feeds, nsrc, all_articles, seen_urls, npc>>
tokenVars == <<tkin, tkpc, tkout>>
mailVars == <<mpages, murl, mparams, mlog, all_emails, mpc>>
chatVars == <<chat, has_reports, cpc, clocal>>
moreVars == <<tokenVars, mailVars, chatVars>>
pureVars == <<windowVars, mdVars, newsVars, moreVars>>
extVars == <<reportVars, served, bstart, stats, pureVars>>
reportOthers == <<parseVars, taskVars, digestVars, liVars, served, bstart, stats, pureVars>>
vars == <<parseVars, taskVars, digestVars, liVars, extVars>>

\* generic helpers ---------------------------------------------------------
RECURSIVE Flatten(_)
Flatten(ss) == IF ss = <<>> THEN <<>> ELSE Head(ss) \o Flatten(Tail(ss))

SeqsUpTo(S, n) == UNION {[1..k -> S] : k \in 0..n}

(***************************************************************************)
(* _parse_drafts (app/linkedin.py 329-341)                                 *)
(*                                                                         *)
(* A text is a sequence of tokens.  LB and RB are the characters { and }.  *)
(* KD, KE, KS and KO are object members: "drafts":["a","b","c"],           *)
(* "drafts":[], "drafts":"x" and "other":1.  N is a JSON scalar (3).       *)
(* W is a prose word, which is not JSON.                                   *)
(***************************************************************************)
MaxTextLen == 5

Tokens == {"LB", "RB", "KD", "KE", "KS", "KO", "N", "W"}
Members == {"KD", "KE", "KS", "KO"}
Texts == SeqsUpTo(Tokens, MaxTextLen)

\* Python values that _parse_drafts can return
PyList(elems) == [t |-> "list", v |-> elems]
PyStr(s) == [t |-> "str", v |-> <<s>>]
ThreeDrafts == <<<<"a">>, <<"b">>, <<"c">>>>

\* json.loads: the documents of the token language are a scalar, the empty
\* object and an object with one member; anything else is a JSONDecodeError.
JsonError == [t |-> "JSONDecodeError"]
json_loads(s) ==
  IF s = <<"N">> THEN [t |-> "scalar"]
  ELSE IF s = <<"LB", "RB">> THEN [t |-> "dict", member |-> "none"]
  ELSE IF Len(s) = 3 /\ s[1] = "LB" /\ s[2] \in Members /\ s[3] = "RB"
       THEN [t |-> "dict", member |-> s[2]]
  ELSE JsonError

\* data.get("drafts", []) on a parsed document; a non-dict has no .get
Returned(v) == [kind |-> "return", value |-> v]
Raised(e) == [kind |-> "raise", value |-> [t |-> e, v |-> <<>>]]
data_get_drafts(data) ==
  IF data.t # "dict" THEN Raised("AttributeError")
  ELSE IF data.member = "KD" THEN Returned(PyList(ThreeDrafts))
  ELSE IF data.member = "KE" THEN Returned(PyList(<<>>))
  ELSE IF data.member = "KS" THEN Returned(PyStr("x"))
  ELSE Returned(PyList(<<>>))

\* re.search(r'\{.*\}', text, re.DOTALL): greedy, from the first { to the
\* last } after it; <<>> when there is no match
FirstLB(s) == IF \E i \in 1..Len(s) : s[i] = "LB"
              THEN CHOOSE i \in 1..Len(s) :
                     s[i] = "LB" /\ \A j \in 1..(i-1) : s[j] # "LB"
              ELSE 0
LastRB(s) == IF \E i \in 1..Len(s) : s[i] = "RB"
             THEN CHOOSE i \in 1..Len(s) :
                    s[i] = "RB" /\ \A j \in (i+1)..Len(s) : s[j] # "RB"
             ELSE 0
HasBraceSpan(s) == FirstLB(s) > 0 /\ LastRB(s) > FirstLB(s)
BraceSpan(s) == IF HasBraceSpan(s) THEN SubSeq(s, FirstLB(s), LastRB(s)) ELSE <<>>

\* the parse without the second attempt on the brace span
_parse_drafts_no_retry(s) ==
  IF json_loads(s) # JsonError THEN data_get_drafts(json_loads(s))
  ELSE Returned(PyList(<<s>>))

_parse_drafts(s) ==
  IF json_loads(s) # JsonError THEN data_get_drafts(json_loads(s))
  ELSE IF HasBraceSpan(s) /\ json_loads(BraceSpan(s)) # JsonError
       THEN data_get_drafts(json_loads(BraceSpan(s)))
  ELSE Returned(PyList(<<s>>))

NotParsed == [kind |-> "none", value |-> [t |-> "none", v |-> <<>>]]

InitParse == /\ text \in Texts
             /\ parsed = NotParsed
             /\ ppc = "start"
IdleParse == /\ text = <<>>
             /\ parsed = NotParsed
             /\ ppc = "start"

ParseDrafts ==
  /\ ppc = "start"
  /\ parsed' = _parse_drafts(text)
  /\ ppc' = "done"
  /\ UNCHANGED <<text, taskVars, digestVars, liVars, extVars>>

(***************************************************************************)
(* get_completed_tasks / get_upcoming_tasks (app/clickup.py)               *)
(***************************************************************************)
MaxPages == 2
MaxPageLen == 2
TaskIds == {1, 2}
TaskNames == {"x", "y"}

\* a task as the collaborator returns it; the url embeds the id. Task 1 is
\* served with either name, task 2 with one.
Tasks == {t \in [id : TaskIds, name : TaskNames] : t.id = 1 \/ t.name = "x"}
TaskPages == SeqsUpTo(Tasks, MaxPageLen)
\* a response is a page of tasks, or an HTTP error status
OkResponse(p) == [ok |-> TRUE, tasks |-> p]
HttpError == [ok |-> FALSE, tasks |-> <<>>]
Responses == {OkResponse(p) : p \in TaskPages} \cup {HttpError}

\* the collaborator: pages past the scripted ones are empty
resp_for(n) == IF n + 1 <= Len(responses) THEN responses[n + 1] ELSE OkResponse(<<>>)

\* the dict appended for a task
CompletedRecord(t) == [name |-> t.name, url |-> t.id]
UpcomingRecord(t) == [name |-> t.name, url |-> t.id]

InitTasks == /\ fn \in {"completed", "upcoming"}
             /\ responses \in SeqsUpTo(Responses, MaxPages)
             /\ page = 0
             /\ requested = <<>>
             /\ all_tasks = <<>>
             /\ seen_ids = {}
             /\ tpc = "loop"
IdleTasks == /\ fn = "completed"
             /\ responses = <<>>
             /\ page = 0
             /\ requested = <<>>
             /\ all_tasks = <<>>
             /\ seen_ids = {}
             /\ tpc = "loop"

\* a page loop that appends every task, seen or not
RECURSIVE AddUpcomingAll(_, _, _)
AddUpcomingAll(ts, acc, seen) ==
  IF ts = <<>> THEN [acc |-> acc, seen |-> seen]
  ELSE AddUpcomingAll(Tail(ts), Append(acc, UpcomingRecord(Head(ts))),
                      seen \cup {Head(ts).id})

\* the for loop of get_upcoming_tasks over one page
RECURSIVE AddUpcoming(_, _, _)
AddUpcoming(ts, acc, seen) ==
  IF ts = <<>> THEN [acc |-> acc, seen |-> seen]
  ELSE IF Head(ts).id \in seen THEN AddUpcoming(Tail(ts), acc, seen)
  ELSE AddUpcoming(Tail(ts), Append(acc, UpcomingRecord(Head(ts))),
                   seen \cup {Head(ts).id})

\* a page loop that skips a task whose record is already in the result
RECURSIVE AddCompletedOnce(_, _)
AddCompletedOnce(ts, acc) ==
  IF ts = <<>> THEN acc
  ELSE IF \E i \in 1..Len(acc) : acc[i].url = Head(ts).id
       THEN AddCompletedOnce(Tail(ts), acc)
  ELSE AddCompletedOnce(Tail(ts), Append(acc, CompletedRecord(Head(ts))))

\* the for loop of get_completed_tasks over one page
RECURSIVE AddCompleted(_, _)
AddCompleted(ts, acc) ==
  IF ts = <<>> THEN acc
  ELSE AddCompleted(Tail(ts), Append(acc, CompletedRecord(Head(ts))))

\* one iteration of the while loop of get_completed_tasks
get_completed_tasks ==
  /\ fn = "completed"
  /\ tpc = "loop"
  /\ requested' = Append(requested, page)
  /\ LET resp == resp_for(page) IN
       IF ~resp.ok
       THEN /\ tpc' = "raised"
            /\ UNCHANGED <<page, all_tasks>>
       ELSE IF resp.tasks = <<>>
       THEN /\ tpc' = "done"
            /\ UNCHANGED <<page, all_tasks>>
       ELSE /\ all_tasks' = AddCompleted(resp.tasks, all_tasks)
            /\ page' = page + 1
            /\ tpc' = "loop"
  /\ UNCHANGED <<fn, responses, seen_ids, parseVars, digestVars, liVars, extVars>>

\* one iteration of the while loop of get_upcoming_tasks
get_upcoming_tasks ==
  /\ fn = "upcoming"
  /\ tpc = "loop"
  /\ requested' = Append(requested, page)
  /\ LET resp == resp_for(page) IN
       IF ~resp.ok
       THEN /\ tpc' = "raised"
            /\ UNCHANGED <<page, all_tasks, seen_ids>>
       ELSE IF resp.tasks = <<>>
       THEN /\ tpc' = "done"
            /\ UNCHANGED <<page, all_tasks, seen_ids>>
       ELSE /\ all_tasks' = AddUpcoming(resp.tasks, all_tasks, seen_ids).acc
            /\ seen_ids' = AddUpcoming(resp.tasks, all_tasks, seen_ids).seen
            /\ page' = page + 1
            /\ tpc' = "loop"
  /\ UNCHANGED <<fn, responses, parseVars, digestVars, liVars, extVars>>

(***************************************************************************)
(* run_daily_digest (app/news_scraper.py 112-142), invoked by the          *)
(* scheduled job and by POST /api/linkedin/news/refresh (app/web.py).      *)
(* Each invocation opens its own session; the steps are its database       *)
(* statements and external calls.                                          *)
(***************************************************************************)
MaxDate == 1
MaxArticles == 1

DigestCallers == {"scheduled", "refresh"}

\* a date column without the unique constraint
always_free(d) == TRUE

\* NewsDigest.date is declared unique=True: the insert of a second row for
\* a date fails with IntegrityError
date_is_free(d) == \A i \in 1..Len(digests) : digests[i].date # d

\* a lookup that finds nothing
no_digest(d) == 0

\* db.query(NewsDigest).filter_by(date=today).first(): the row's id, 0 for None
existing_digest(d) ==
  IF \E i \in 1..Len(digests) : digests[i].date = d
  THEN CHOOSE i \in 1..Len(digests) :
         digests[i].date = d /\ \A j \in 1..(i-1) : digests[j].date # d
  ELSE 0

NoDigestRow == [date |-> 0, article_count |-> 0, summary |-> "none"]
DigestIdle == [today |-> 0, articles |-> 0, result |-> "none", ret |-> 0,
               existing |-> 0, seen |-> NoDigestRow,
               fetches |-> 0, llm |-> 0, wrote |-> FALSE]

IdleDigest == /\ digests = <<>>
              /\ today = 0
              /\ dpc = [c \in DigestCallers |-> "idle"]
              /\ dlocal = [c \in DigestCallers |-> DigestIdle]

\* lines 114-121: read today's date, look the digest up, return it if found
CheckDigest(c) ==
  /\ dpc[c] = "idle"
  /\ LET e == existing_digest(today)
         l == [DigestIdle EXCEPT !.today = today, !.existing = e] IN
       IF e # 0
       THEN /\ dlocal' = [dlocal EXCEPT ![c] = [l EXCEPT !.ret = e, !.seen = digests[e]]]
            /\ dpc' = [dpc EXCEPT ![c] = "returned"]
       ELSE /\ dlocal' = [dlocal EXCEPT ![c] = l]
            /\ dpc' = [dpc EXCEPT ![c] = "fetch"]
  /\ UNCHANGED <<digests, today>>

\* run_daily_digest entered by the daily job
DigestCheck(c) ==
  /\ CheckDigest(c)
  /\ UNCHANGED <<parseVars, taskVars, liVars, extVars>>

\* line 124: fetch_all_news()
DigestFetch(c) ==
  /\ dpc[c] = "fetch"
  /\ \E n \in 0..MaxArticles :
       dlocal' = [dlocal EXCEPT ![c].articles = n, ![c].fetches = @ + 1]
  /\ dpc' = [dpc EXCEPT ![c] = "summarise"]
  /\ UNCHANGED <<digests, today, parseVars, taskVars, liVars, extVars>>

\* line 127: summarise_news(articles). No LLM call for an empty list; else
\* the call raises, or its text parses to a dict or to another JSON value.
DigestSummarise(c) ==
  /\ dpc[c] = "summarise"
  /\ IF dlocal[c].articles = 0
     THEN /\ dlocal' = [dlocal EXCEPT ![c].result = "dict"]
          /\ dpc' = [dpc EXCEPT ![c] = "save"]
     ELSE \E r \in {"dict", "nondict", "error"} :
            /\ dlocal' = [dlocal EXCEPT ![c].result = r, ![c].llm = @ + 1]
            /\ dpc' = [dpc EXCEPT ![c] = IF r = "error" THEN "raised" ELSE "save"]
  /\ UNCHANGED <<digests, today, parseVars, taskVars, liVars, extVars>>

\* lines 129-142: build the row (result.get raises on a non-dict), add,
\* commit, return it
DigestSave(c) ==
  /\ dpc[c] = "save"
  /\ IF dlocal[c].result = "nondict" \/ ~date_is_free(dlocal[c].today)
     THEN /\ dpc' = [dpc EXCEPT ![c] = "raised"]
          /\ UNCHANGED <<digests, dlocal>>
     ELSE /\ digests' = Append(digests, [date |-> dlocal[c].today,
                                         article_count |-> dlocal[c].articles,
                                         summary |-> c])
          /\ dlocal' = [dlocal EXCEPT ![c].ret = Len(digests) + 1, ![c].wrote = TRUE]
          /\ dpc' = [dpc EXCEPT ![c] = "returned"]
  /\ UNCHANGED <<today, parseVars, taskVars, liVars, extVars>>

\* the caller has its answer; its next trigger starts a new invocation
DigestEnd(c) ==
  /\ dpc[c] \in {"returned", "raised"}
  /\ dpc' = [dpc EXCEPT ![c] = "idle"]
  /\ dlocal' = [dlocal EXCEPT ![c] = DigestIdle]
  /\ UNCHANGED <<digests, today, parseVars, taskVars, liVars, extVars>>

\* midnight
NextDate ==
  /\ today < MaxDate
  /\ today' = today + 1
  /\ UNCHANGED <<digests, dpc, dlocal, parseVars, taskVars, liVars, extVars>>

(***************************************************************************)
(* Posts, weeks and generate_week_batch (app/linkedin.py, app/web.py,      *)
(* app/models.py).  A batch run holds one ORM session: a row it has loaded *)
(* is read from the session until a commit expires it, and every commit    *)
(* is one step.  The HTTP handlers are one step each.                      *)
(***************************************************************************)
MaxPosts == 4

DAY_ORDER == <<"monday", "tuesday", "wednesday", "thursday", "friday", "saturday", "sunday">>
Days == 1..Len(DAY_ORDER)
DayOf(name) == CHOOSE d \in Days : DAY_ORDER[d] = name
RECYCLE_LIMIT == 2
RECYCLE_AGE_DAYS == 14

Weeks == {"w1", "w2"}
PostIds == 1..MaxPosts
BatchRuns == {1, 2}
\* the clock, in days, at which requests arrive
ClockValues == {0, 14}
\* what the requests of the model address
ReqPosts == {2, 3}
StatusPosts == {2}
RaceWeeks == {"w1"}
FreshWeeks == {"w1"}
FreshAssigned == {1}
FreshDays == {DayOf("wednesday")}
RaceMarked == {2}
RaceRejected == {3}
ReqDays == {DayOf("sunday")}
SeqRuns == {1}
Statuses == {"draft", "approved"}

NoPost == [exists |-> FALSE, is_recyclable |-> FALSE, recycle_count |-> 0,
           created_at |-> 0, parent_post_id |-> 0, status |-> "none"]
\* LinkedInPost(...) with the column defaults of models.py
LinkedInPost(parent) ==
  [exists |-> TRUE, is_recyclable |-> FALSE, recycle_count |-> 0,
   created_at |-> now, parent_post_id |-> parent, status |-> "draft"]
\* the id the database gives the next inserted post
NextPostId ==
  IF \E p \in PostIds : posts[p].exists
  THEN 1 + CHOOSE p \in PostIds : posts[p].exists /\ \A q \in PostIds : posts[q].exists => q <= p
  ELSE 1

EmptyRow == [d \in Days |-> 0]
NoWeek == [exists |-> FALSE, slot |-> EmptyRow]
\* LinkedInWeek(week_start=...) as inserted
LinkedInWeek == [exists |-> TRUE, slot |-> EmptyRow]
RowFull(row) == \A d \in Days : row[d] # 0

\* states the tables can be in when the requests of the model begin: two
\* saved posts, and a week absent or assigned post 1 monday to saturday
SeedRow == [d \in Days |-> IF DAY_ORDER[d] = "sunday" THEN 0 ELSE 1]
SeedWeek == [exists |-> TRUE, slot |-> SeedRow]

BatchIdle == [week |-> "none", day |-> 1, row |-> EmptyRow, expired |-> TRUE,
              original |-> 0, post |-> 0, called |-> FALSE, full |-> FALSE]

InitLinkedIn ==
  /\ now = 0
  /\ posts = [p \in PostIds |-> IF p \in {1, 2} THEN LinkedInPost(0) ELSE NoPost]
  /\ weeks = [w \in Weeks |-> SeedWeek]
  /\ bpc = [b \in BatchRuns |-> "idle"]
  /\ blocal = [b \in BatchRuns |-> BatchIdle]
InitFresh ==
  /\ now = 0
  /\ posts = [p \in PostIds |-> IF p \in {1, 2} THEN LinkedInPost(0) ELSE NoPost]
  /\ weeks = [w \in Weeks |-> NoWeek]
  /\ bpc = [b \in BatchRuns |-> "idle"]
  /\ blocal = [b \in BatchRuns |-> BatchIdle]
InitRace ==
  /\ now = 0
  /\ posts = [p \in PostIds |-> IF p \in {1, 2} THEN LinkedInPost(0) ELSE NoPost]
  /\ weeks = [w \in Weeks |-> SeedWeek]
  /\ bpc = [b \in BatchRuns |-> "idle"]
  /\ blocal = [b \in BatchRuns |-> BatchIdle]
IdleLinkedIn ==
  /\ posts = [p \in PostIds |-> NoPost]
  /\ weeks = [w \in Weeks |-> NoWeek]
  /\ now = 0
  /\ bpc = [b \in BatchRuns |-> "idle"]
  /\ blocal = [b \in BatchRuns |-> BatchIdle]

liOthers == <<parseVars, taskVars, digestVars, extVars>>

\* ---- week management and post handlers

\* an UPDATE that sets the day's column in every week
set_slot_all_weeks(w, d, post_id) ==
  [x \in Weeks |-> [weeks[x] EXCEPT !.slot[d] = post_id]]

\* the UPDATE a slot assignment flushes: one column of the week's row
set_slot(w, d, post_id) == [weeks EXCEPT ![w].slot[d] = post_id]

\* assign_post_to_day (linkedin.py 229-239), called by linkedin_assign: the
\* week is inserted when it is missing
assign_post_to_day(post_id, week_start, day) ==
  /\ weeks' = [set_slot(week_start, day, post_id) EXCEPT ![week_start].exists = TRUE]
  /\ UNCHANGED <<posts, now, bpc, blocal, liOthers>>

\* mark_recyclable (linkedin.py 242-248), called by linkedin_recycle
mark_recyclable(post_id) ==
  /\ posts' = IF posts[post_id].exists
              THEN [posts EXCEPT ![post_id].is_recyclable = TRUE]
              ELSE posts
  /\ UNCHANGED <<weeks, now, bpc, blocal, liOthers>>

\* linkedin_save_post (web.py 285-307)
linkedin_save_post ==
  /\ NextPostId \in ReqPosts
  /\ posts' = [posts EXCEPT ![NextPostId] = LinkedInPost(0)]
  /\ UNCHANGED <<weeks, now, bpc, blocal, liOthers>>

\* linkedin_approve (web.py 316-326)
linkedin_approve(post_id) ==
  /\ posts' = IF posts[post_id].exists
              THEN [posts EXCEPT ![post_id].status = "approved"]
              ELSE posts
  /\ UNCHANGED <<weeks, now, bpc, blocal, liOthers>>

\* linkedin_update_post (web.py 356-369): of the fields it may set, status
\* is the one the model keeps
linkedin_update_post(post_id, status) ==
  /\ posts' = IF posts[post_id].exists
              THEN [posts EXCEPT ![post_id].status = status]
              ELSE posts
  /\ UNCHANGED <<weeks, now, bpc, blocal, liOthers>>

\* a reject that clears the references of the current week only
linkedin_reject_one_week(post_id) ==
  /\ IF posts[post_id].exists
     THEN /\ weeks' = [weeks EXCEPT !["w1"].slot =
                         [d \in Days |-> IF weeks["w1"].slot[d] = post_id THEN 0
                                         ELSE weeks["w1"].slot[d]]]
          /\ posts' = [posts EXCEPT ![post_id] = NoPost]
     ELSE UNCHANGED <<posts, weeks>>
  /\ UNCHANGED <<now, bpc, blocal, liOthers>>

\* linkedin_reject (web.py 328-344)
linkedin_reject(post_id) ==
  /\ IF posts[post_id].exists
     THEN /\ weeks' = [w \in Weeks |->
                        [weeks[w] EXCEPT !.slot =
                           [d \in Days |-> IF weeks[w].slot[d] = post_id THEN 0
                                           ELSE weeks[w].slot[d]]]]
          /\ posts' = [posts EXCEPT ![post_id] = NoPost]
     ELSE UNCHANGED <<posts, weeks>>
  /\ UNCHANGED <<now, bpc, blocal, liOthers>>

\* time passes
Tick ==
  /\ \E t \in ClockValues : t > now /\ now' = t /\ \A u \in ClockValues : ~(now < u /\ u < t)
  /\ UNCHANGED <<posts, weeks, bpc, blocal, liOthers>>

\* ---- generate_week_batch (linkedin.py 407-465)

\* a query without the filter
all_posts == {p \in PostIds : posts[p].exists}

\* the filter of get_recyclable_posts (linkedin.py 251-264)
get_recyclable_posts ==
  {p \in PostIds : /\ posts[p].exists
                   /\ posts[p].is_recyclable
                   /\ posts[p].recycle_count < RECYCLE_LIMIT
                   /\ posts[p].created_at <= now - RECYCLE_AGE_DAYS}

\* what the model can answer to a drafts request, and an API error
BatchTexts == {<<"LB", "KD", "RB">>, <<"W">>, <<"LB", "RB">>, <<"N">>}
\* "raised", "empty" (falsy drafts) or "drafts", as `if drafts:` sees it
DraftsOutcome(t) ==
  LET r == _parse_drafts(t) IN
    IF r.kind = "raise" THEN "raised"
    ELSE IF r.value.v = <<>> THEN "empty"
    ELSE "drafts"
LLMOutcomes == {DraftsOutcome(t) : t \in BatchTexts} \cup {"raised"}

\* lines 408-409: the query for the week
StartBatch(b, w) ==
  /\ bpc[b] = "idle"
  /\ IF weeks[w].exists
     THEN /\ blocal' = [blocal EXCEPT ![b] =
                          [BatchIdle EXCEPT !.week = w, !.row = weeks[w].slot,
                                            !.expired = FALSE,
                                            !.full = RowFull(weeks[w].slot)]]
          /\ bpc' = [bpc EXCEPT ![b] = "loop"]
     ELSE /\ blocal' = [blocal EXCEPT ![b] = [BatchIdle EXCEPT !.week = w]]
          /\ bpc' = [bpc EXCEPT ![b] = "create"]
  /\ UNCHANGED <<posts, weeks, now>>

BatchStart(b, w) ==
  /\ StartBatch(b, w)
  /\ UNCHANGED liOthers

\* lines 410-414: insert the week; week_start is unique
BatchCreateWeek(b) ==
  /\ bpc[b] = "create"
  /\ IF weeks[blocal[b].week].exists
     THEN /\ bpc' = [bpc EXCEPT ![b] = "raised"]
          /\ UNCHANGED <<weeks, blocal>>
     ELSE /\ weeks' = [weeks EXCEPT ![blocal[b].week] = LinkedInWeek]
          /\ blocal' = [blocal EXCEPT ![b].row = EmptyRow, ![b].expired = FALSE]
          /\ bpc' = [bpc EXCEPT ![b] = "loop"]
  /\ UNCHANGED <<posts, now, liOthers>>

\* a loop that visits every day, filled or not
AllFrom(row, d) == {e \in Days : e >= d}

\* a session that reads the table at every access
StoreRow(b) == weeks[blocal[b].week].slot

\* the row the session reads: reloaded when a commit has expired it
SessionRow(b) == IF blocal[b].expired THEN weeks[blocal[b].week].slot ELSE blocal[b].row
EmptyFrom(row, d) == {e \in Days : e >= d /\ row[e] = 0}
Min(S) == CHOOSE x \in S : \A y \in S : x <= y

\* a loop that tries recycling on every day
BatchLoopRecycleAnyDay(b) ==
  /\ bpc[b] = "loop"
  /\ LET row == SessionRow(b)
         rest == EmptyFrom(row, blocal[b].day) IN
       IF rest = {}
       THEN /\ bpc' = [bpc EXCEPT ![b] = "done"]
            /\ blocal' = [blocal EXCEPT ![b].row = weeks[blocal[b].week].slot,
                                        ![b].expired = FALSE,
                                        ![b].day = Len(DAY_ORDER) + 1]
       ELSE /\ bpc' = [bpc EXCEPT ![b] = "select"]
            /\ blocal' = [blocal EXCEPT ![b].row = row, ![b].expired = FALSE,
                                        ![b].day = Min(rest)]
  /\ UNCHANGED <<posts, weeks, now, liOthers>>

\* lines 416-426: skip the filled days; at the first empty one decide
\* between recycling and generation; past sunday, lines 463-465
BatchLoop(b) ==
  /\ bpc[b] = "loop"
  /\ LET row == SessionRow(b)
         rest == EmptyFrom(row, blocal[b].day) IN
       IF rest = {}
       THEN /\ bpc' = [bpc EXCEPT ![b] = "done"]
            /\ blocal' = [blocal EXCEPT ![b].row = weeks[blocal[b].week].slot,
                                        ![b].expired = FALSE,
                                        ![b].day = Len(DAY_ORDER) + 1]
       ELSE /\ bpc' = [bpc EXCEPT ![b] =
                         IF DAY_ORDER[Min(rest)] = "sunday" THEN "select" ELSE "generate"]
            /\ blocal' = [blocal EXCEPT ![b].row = row, ![b].expired = FALSE,
                                        ![b].day = Min(rest)]
  /\ UNCHANGED <<posts, weeks, now, liOthers>>

\* lines 427-429: recyclable = get_recyclable_posts(); original = recyclable[0]
BatchSelect(b) ==
  /\ bpc[b] = "select"
  /\ IF get_recyclable_posts = {}
     THEN /\ bpc' = [bpc EXCEPT ![b] = "generate"]
          /\ UNCHANGED blocal
     ELSE /\ \E o \in get_recyclable_posts : blocal' = [blocal EXCEPT ![b].original = o]
          /\ bpc' = [bpc EXCEPT ![b] = "recycle"]
  /\ UNCHANGED <<posts, weeks, now, liOthers>>

\* line 430: generate_recycle_post(original.id) (lines 373-404)
BatchRecycle(b) ==
  /\ bpc[b] = "recycle"
  /\ IF ~posts[blocal[b].original].exists
     THEN /\ bpc' = [bpc EXCEPT ![b] = "generate"]
          /\ UNCHANGED blocal
     ELSE \E r \in LLMOutcomes :
            /\ blocal' = [blocal EXCEPT ![b].called = TRUE]
            /\ bpc' = [bpc EXCEPT ![b] = CASE r = "raised" -> "raised"
                                           [] r = "empty" -> "generate"
                                           [] OTHER -> "insert_recycled"]
  /\ UNCHANGED <<posts, weeks, now, liOthers>>

\* lines 432-441: the recycled post is added and committed
BatchInsertRecycled(b) ==
  /\ bpc[b] = "insert_recycled"
  /\ NextPostId \in PostIds
  /\ posts' = [posts EXCEPT ![NextPostId] = LinkedInPost(blocal[b].original)]
  /\ blocal' = [blocal EXCEPT ![b].post = NextPostId, ![b].expired = TRUE,
                              ![b].row = EmptyRow]
  /\ bpc' = [bpc EXCEPT ![b] = "fill_recycled"]
  /\ UNCHANGED <<weeks, now, liOthers>>

\* a fill that does not count the recycle
BatchFillRecycledUncounted(b) ==
  /\ bpc[b] = "fill_recycled"
  /\ weeks' = set_slot(blocal[b].week, blocal[b].day, blocal[b].post)
  /\ blocal' = [blocal EXCEPT ![b].day = @ + 1, ![b].expired = TRUE, ![b].row = EmptyRow,
                              ![b].original = 0, ![b].post = 0]
  /\ bpc' = [bpc EXCEPT ![b] = "loop"]
  /\ UNCHANGED <<posts, now, liOthers>>

\* lines 442-447: fill the slot, count the recycle on the original, commit
BatchFillRecycled(b) ==
  /\ bpc[b] = "fill_recycled"
  /\ weeks' = set_slot(blocal[b].week, blocal[b].day, blocal[b].post)
  /\ posts' = IF posts[blocal[b].original].exists
              THEN [posts EXCEPT ![blocal[b].original].recycle_count = @ + 1]
              ELSE posts
  /\ blocal' = [blocal EXCEPT ![b].day = @ + 1, ![b].expired = TRUE, ![b].row = EmptyRow,
                              ![b].original = 0, ![b].post = 0]
  /\ bpc' = [bpc EXCEPT ![b] = "loop"]
  /\ UNCHANGED <<now, liOthers>>

\* line 449: generate_post_drafts(pillar_name, audience); with no drafts
\* the loop goes on without a commit
BatchGenerate(b) ==
  /\ bpc[b] = "generate"
  /\ \E r \in LLMOutcomes :
       /\ blocal' = [blocal EXCEPT ![b].called = TRUE,
                                   ![b].day = IF r = "empty" THEN @ + 1 ELSE @]
       /\ bpc' = [bpc EXCEPT ![b] = CASE r = "raised" -> "raised"
                                      [] r = "empty" -> "loop"
                                      [] OTHER -> "insert"]
  /\ UNCHANGED <<posts, weeks, now, liOthers>>

\* lines 451-459: the generated post is added and committed
BatchInsert(b) ==
  /\ bpc[b] = "insert"
  /\ NextPostId \in PostIds
  /\ posts' = [posts EXCEPT ![NextPostId] = LinkedInPost(0)]
  /\ blocal' = [blocal EXCEPT ![b].post = NextPostId, ![b].expired = TRUE,
                              ![b].row = EmptyRow]
  /\ bpc' = [bpc EXCEPT ![b] = "fill"]
  /\ UNCHANGED <<weeks, now, liOthers>>

\* lines 460-461: fill the slot, commit
BatchFill(b) ==
  /\ bpc[b] = "fill"
  /\ weeks' = set_slot(blocal[b].week, blocal[b].day, blocal[b].post)
  /\ blocal' = [blocal EXCEPT ![b].day = @ + 1, ![b].expired = TRUE, ![b].row = EmptyRow,
                              ![b].original = 0, ![b].post = 0]
  /\ bpc' = [bpc EXCEPT ![b] = "loop"]
  /\ UNCHANGED <<posts, now, liOthers>>

\* the request has its answer; the next one starts a new run
BatchEnd(b) ==
  /\ bpc[b] \in {"done", "raised"}
  /\ bpc' = [bpc EXCEPT ![b] = "idle"]
  /\ blocal' = [blocal EXCEPT ![b] = BatchIdle]
  /\ UNCHANGED <<posts, weeks, now, liOthers>>

(***************************************************************************)
(* generate_weekly_report (app/report.py 21-65), invoked by the Friday     *)
(* scheduled job, by the CLI entry point and by POST /api/generate         *)
(* (app/web.py 242-250).  The steps of an invocation are its external      *)
(* calls and its one commit.                                               *)
(***************************************************************************)
MaxWeek == 1
MaxReports == 2

ReportCallers == {"scheduled", "cli", "api"}
ReportCalls == {"completed", "upcoming", "emails", "summarise"}
\* the Authorization header of a request: the configured secret, another
\* value, or none
AuthHeaders == {"valid", "wrong", "missing"}

NoCalls == [k \in ReportCalls |-> 0]
ReportIdle == [week_start |-> 0, calls |-> NoCalls, wrote |-> FALSE]

IdleReport ==
  /\ reports = <<>>
  /\ rweek = 0
  /\ rpc = [c \in ReportCallers |-> "idle"]
  /\ rlocal = [c \in ReportCallers |-> ReportIdle]

\* lines 23-24: init_db(); week_start, week_end = _week_range()
StartReport(c) ==
  /\ rpc[c] = "idle"
  /\ rpc' = [rpc EXCEPT ![c] = "completed"]
  /\ rlocal' = [rlocal EXCEPT ![c] = [ReportIdle EXCEPT !.week_start = rweek]]
  /\ UNCHANGED <<reports, rweek>>

\* _scheduled_generate (web.py 473-480) and generate_report.py
ReportStart(c) ==
  /\ c # "api"
  /\ StartReport(c)
  /\ UNCHANGED reportOthers

\* api_generate (web.py 242-250): 401 unless the header is the secret
api_generate(auth) ==
  /\ rpc["api"] = "idle"
  /\ IF auth = "valid"
     THEN StartReport("api")
     ELSE /\ rpc' = [rpc EXCEPT !["api"] = "denied"]
          /\ UNCHANGED <<reports, rweek, rlocal>>
  /\ UNCHANGED reportOthers

\* a variant that commits before the summary exists
NextReportStepEarly(k) ==
  CASE k = "completed" -> "upcoming"
    [] k = "upcoming" -> "emails"
    [] k = "emails" -> "save"
    [] k = "summarise" -> "save"

\* the call an invocation is about to make, and the position after it
NextReportStep(k) ==
  CASE k = "completed" -> "upcoming"
    [] k = "upcoming" -> "emails"
    [] k = "emails" -> "summarise"
    [] k = "summarise" -> "save"

\* lines 31, 40, 43 and 47: get_completed_tasks, get_upcoming_tasks,
\* get_emails, generate_summary; each returns or raises
ReportCall(c) ==
  /\ rpc[c] \in ReportCalls
  /\ rlocal' = [rlocal EXCEPT ![c].calls[rpc[c]] = @ + 1]
  /\ \E ok \in BOOLEAN :
       rpc' = [rpc EXCEPT ![c] = IF ok THEN NextReportStep(rpc[c]) ELSE "raised"]
  /\ UNCHANGED <<reports, rweek, reportOthers>>

\* lines 51-65: the row is added and committed
ReportSave(c) ==
  /\ rpc[c] = "save"
  /\ Len(reports) < MaxReports
  /\ reports' = Append(reports, [week_start |-> rlocal[c].week_start])
  /\ rlocal' = [rlocal EXCEPT ![c].wrote = TRUE]
  /\ rpc' = [rpc EXCEPT ![c] = "returned"]
  /\ UNCHANGED <<rweek, reportOthers>>

\* the trigger has its answer
ReportEnd(c) ==
  /\ rpc[c] \in {"returned", "raised", "denied"}
  /\ rpc' = [rpc EXCEPT ![c] = "idle"]
  /\ rlocal' = [rlocal EXCEPT ![c] = ReportIdle]
  /\ UNCHANGED <<reports, rweek, reportOthers>>

\* the next week begins
NextWeek ==
  /\ rweek < MaxWeek
  /\ rweek' = rweek + 1
  /\ UNCHANGED <<reports, rpc, rlocal, reportOthers>>

\* the write endpoints (web.py 242-250, 309-314, 444-454)
WriteEndpoints == {"api_generate", "linkedin_generate_week", "linkedin_news_refresh"}
AuthRuns == {1}
AuthWeeks == {"w1"}
AuthDigestCallers == {"refresh"}
AuthReportCallers == {"api"}

\* the endpoints that have acted on a request, with this one added when its
\* header is not the secret
Served(endpoint, auth) == IF auth = "valid" THEN served ELSE served \cup {endpoint}

\* linkedin_generate_week (web.py 309-314): the header is never read
linkedin_generate_week(b, w, auth) ==
  /\ StartBatch(b, w)
  /\ served' = Served("linkedin_generate_week", auth)
  /\ UNCHANGED <<parseVars, taskVars, digestVars, reportVars, bstart, stats, pureVars>>

\* linkedin_news_refresh (web.py 444-454): the header is never read
linkedin_news_refresh(c, auth) ==
  /\ CheckDigest(c)
  /\ served' = Served("linkedin_news_refresh", auth)
  /\ UNCHANGED <<parseVars, taskVars, liVars, reportVars, bstart, stats, pureVars>>

\* generate_week_batch entered (linkedin.py 408-409), the row the week has
\* before the run being kept: no slot is set while the week does not exist
BatchBegin(b, w) ==
  /\ StartBatch(b, w)
  /\ bstart' = [bstart EXCEPT ![b] = IF weeks[w].exists THEN weeks[w].slot ELSE EmptyRow]
  /\ UNCHANGED <<parseVars, taskVars, digestVars, reportVars, served, stats, pureVars>>

SoloWeeks == {"w1"}
SoloMarked == {1}
\* a week with friday, saturday and sunday still to fill
SoloRow == [d \in Days |-> IF d < DayOf("friday") THEN 1 ELSE 0]
InitSolo ==
  /\ now = 0
  /\ posts = [p \in PostIds |-> IF p \in {1, 2} THEN LinkedInPost(0) ELSE NoPost]
  /\ weeks = [w \in Weeks |-> [exists |-> TRUE, slot |-> SoloRow]]
  /\ bpc = [b \in BatchRuns |-> "idle"]
  /\ blocal = [b \in BatchRuns |-> BatchIdle]

(***************************************************************************)
(* The statistics table (app/linkedin.py 152-192) and the answers of the   *)
(* post and statistics routes (app/web.py 316-426).                        *)
(***************************************************************************)
MaxStats == 2

StatIds == 1..MaxStats
StatValues == {"v0", "v1"}
NoStat == [exists |-> FALSE, value |-> "v0"]
LinkedInStat(v) == [exists |-> TRUE, value |-> v]

IdleStats == stats = [i \in StatIds |-> NoStat]
InitStats == stats = [i \in StatIds |-> IF i = 1 THEN LinkedInStat("v0") ELSE NoStat]

\* the id the table gives the next row: one past the largest in use
NextStatId ==
  IF \A i \in StatIds : ~stats[i].exists THEN 1
  ELSE 1 + CHOOSE i \in StatIds : stats[i].exists /\ \A j \in StatIds : stats[j].exists => j <= i

statOthers == <<parseVars, taskVars, digestVars, liVars, reportVars, served, bstart, pureVars>>

\* create_stat (linkedin.py 152-165)
create_stat(v) ==
  /\ NextStatId \in StatIds
  /\ stats' = [stats EXCEPT ![NextStatId] = LinkedInStat(v)]
  /\ UNCHANGED statOthers

\* update_stat (168-180): None when the row is missing
update_stat_result(stat_id) == IF stats[stat_id].exists THEN "stat" ELSE "None"
update_stat(stat_id, v) ==
  /\ stats' = IF stats[stat_id].exists THEN [stats EXCEPT ![stat_id].value = v] ELSE stats
  /\ UNCHANGED statOthers

\* delete_stat (183-192): False when the row is missing
delete_stat_result(stat_id) == stats[stat_id].exists
delete_stat(stat_id) ==
  /\ stats' = IF stats[stat_id].exists THEN [stats EXCEPT ![stat_id] = NoStat] ELSE stats
  /\ UNCHANGED statOthers

\* the status of the answers (web.py): approve 320-322, reject 332-334,
\* regenerate 351-352, edit 360-362, stats 417-419 and 424-426 answer 404
\* when the row is missing
linkedin_approve_status(post_id) == IF posts[post_id].exists THEN 200 ELSE 404
linkedin_reject_status(post_id) == IF posts[post_id].exists THEN 200 ELSE 404
linkedin_regenerate_status(post_id) == IF posts[post_id].exists THEN 200 ELSE 404
linkedin_update_post_status(post_id) == IF posts[post_id].exists THEN 200 ELSE 404
linkedin_stats_update_status(stat_id) == IF update_stat_result(stat_id) = "None" THEN 404 ELSE 200
linkedin_stats_delete_status(stat_id) == IF delete_stat_result(stat_id) THEN 200 ELSE 404
\* recycle 371-374: mark_recyclable returns nothing, the answer is always ok
linkedin_recycle_status(post_id) == 200
\* assign 376-384: 400 for a missing week_start or an unknown day, else ok;
\* the post is not looked up
linkedin_assign_status(post_id, week_start, day) ==
  IF week_start \notin Weeks \/ day \notin Days THEN 400 ELSE 200

CrudPosts == {2, 3}
CrudWeeks == {"w1"}
CrudDays == {DayOf("saturday"), DayOf("sunday")}

(***************************************************************************)
(* The window of completed tasks: _week_range (app/report.py 12-18), its   *)
(* conversion to epoch milliseconds (29-30) and the bounds that            *)
(* get_completed_tasks passes to the collaborator (app/clickup.py 17-18).  *)
(* Times are milliseconds counted from Monday 1969-12-29 00:00:00 UTC, so  *)
(* the epoch, a Thursday, is three days later.                             *)
(***************************************************************************)
MaxDone == 2

SecMs == 1000
DayMs == 86400000
WeekMs == 7 * DayMs
EpochShift == 3 * DayMs

\* datetime.timestamp() * 1000 of an instant
epoch_ms(t) == t - EpochShift

\* now.weekday(): Monday is 0
weekday(t) == (t \div DayMs) % 7

\* lines 14-16: back to Monday, then hour, minute, second, microsecond to 0
monday_of(t) == ((t \div DayMs) - weekday(t)) * DayMs

\* line 17: monday + timedelta(days=4, hours=23, minutes=59, seconds=59)
friday_of(t) == monday_of(t) + 4 * DayMs + 23 * 3600 * SecMs + 59 * 60 * SecMs + 59 * SecMs

_week_range(t) == <<monday_of(t), friday_of(t)>>

\* the instants the clock is read at: in the first and second week, on a
\* Monday at 00:00:00.000, midweek, on Friday in the last second and after
\* it, and at the end of Sunday
NowValues ==
  UNION {{k * WeekMs, k * WeekMs + 2 * DayMs + 45296789, k * WeekMs + 5 * DayMs - 1,
          k * WeekMs + 5 * DayMs, k * WeekMs + WeekMs - 1} : k \in 0..1}

\* the date_done values a task may have: around both ends of both windows
DoneValues ==
  UNION {{epoch_ms(k * WeekMs + o) :
            o \in {-1, 0, 1, 3 * DayMs, 5 * DayMs - SecMs - 1, 5 * DayMs - SecMs,
                   5 * DayMs - SecMs + 1, 5 * DayMs - 1}} : k \in 0..1}

\* a filter that reads only the lower bound
MatchesNoUpper(t, lo, hi, st) == IF st.gt THEN t > lo ELSE t >= lo

\* date_done_gt / date_done_lt as the collaborator applies them: the
\* parameter names say greater-than and less-than; whether a task exactly
\* at a bound matches is the collaborator's choice
Matches(t, lo, hi, st) ==
  /\ IF st.gt THEN t > lo ELSE t >= lo
  /\ IF st.lt THEN t < hi ELSE t <= hi

NoFetch == [fetched |-> FALSE, at |-> 0, start_ms |-> 0, end_ms |-> 0, tasks |-> {}]

InitWindow ==
  /\ wnow \in NowValues
  /\ done \in {D \in SUBSET DoneValues : Cardinality(D) <= MaxDone}
  /\ strict \in [gt : BOOLEAN, lt : BOOLEAN]
  /\ wres = NoFetch

IdleWindow ==
  /\ wnow = 0
  /\ done = {}
  /\ strict = [gt |-> TRUE, lt |-> TRUE]
  /\ wres = NoFetch

windowOthers == <<parseVars, taskVars, digestVars, liVars, reportVars, served, bstart, stats, mdVars, newsVars, moreVars>>

\* report.py 24-31 with clickup.py 12-45: the window of the current week in
\* epoch ms, and the tasks the collaborator returns for it
FetchCompleted ==
  /\ LET wr == _week_range(wnow)
         start_ms == epoch_ms(wr[1])
         end_ms == epoch_ms(wr[2]) IN
       wres' = [fetched |-> TRUE, at |-> wnow, start_ms |-> start_ms, end_ms |-> end_ms,
                tasks |-> {t \in done : Matches(t, start_ms, end_ms, strict)}]
  /\ UNCHANGED <<wnow, done, strict, windowOthers>>

\* time passes
WindowTick ==
  /\ \E t \in NowValues : t > wnow /\ wnow' = t
  /\ UNCHANGED <<done, strict, wres, windowOthers>>

(***************************************************************************)
(* _md_to_html and _inline_md (app/report.py 86-156).  A line is its       *)
(* leading marker and its content; the output is the sequence of the tags  *)
(* and texts written, the style attributes left out.                       *)
(***************************************************************************)
MaxLines == 3

\* the markers the branches of the loop test for, "" being none
Headers == {"### ", "## ", "# "}
ListMarkers == {"- ", "* ", "1. "}

BlankLine == [marker |-> "", content |-> ""]
\* the lines of the inputs: blank, the three headers, the three kinds of list
\* item, a paragraph, bold text in an item, and markup written in the text
MdLines ==
  {BlankLine}
    \cup {[marker |-> h, content |-> "t"] : h \in Headers}
    \cup {[marker |-> l, content |-> "t"] : l \in ListMarkers}
    \cup {[marker |-> "", content |-> c] : c \in {"t", "<ul>"}}
    \cup {[marker |-> "- ", content |-> c] : c \in {"**t**", "<li>"}}

\* _inline_md (150-156): bold, italic and links are rewritten; everything
\* else, markup included, is copied as it is
_inline_md(c) ==
  IF c = "**t**" THEN <<"<strong>", "t", "</strong>">> ELSE <<c>>

HeaderTag(h) == CASE h = "### " -> "h3" [] h = "## " -> "h2" [] h = "# " -> "h1"
Element(tag, c) == <<"<" \o tag \o ">">> \o _inline_md(c) \o <<"</" \o tag \o ">">>

\* a variant that never closes a list inside the loop
CloseListNever(open) == <<>>
\* what the branches at 97-100, 104-106, 112-114, 121-123 and 138-140 append
\* before their own output
CloseList(open) == IF open THEN <<"</ul>">> ELSE <<>>

InitMd ==
  /\ lines \in SeqsUpTo(MdLines, MaxLines)
  /\ mdi = 0
  /\ in_list = FALSE
  /\ html_lines = <<>>
  /\ mdpc = "loop"

IdleMd ==
  /\ lines = <<>>
  /\ mdi = 0
  /\ in_list = FALSE
  /\ html_lines = <<>>
  /\ mdpc = "returned"

mdOthers == <<parseVars, taskVars, digestVars, liVars, reportVars, served, bstart, stats, windowVars, newsVars, moreVars>>

\* lines 94-142: one iteration of the loop
MdLine ==
  /\ mdpc = "loop"
  /\ mdi < Len(lines)
  /\ LET line == lines[mdi + 1] IN
       /\ mdi' = mdi + 1
       /\ IF line = BlankLine
          THEN /\ html_lines' = html_lines \o CloseList(in_list) \o <<"<br>">>
               /\ in_list' = FALSE
          ELSE IF line.marker \in Headers
          THEN /\ html_lines' = html_lines \o CloseList(in_list)
                                   \o Element(HeaderTag(line.marker), line.content)
               /\ in_list' = FALSE
          ELSE IF line.marker \in ListMarkers
          THEN /\ html_lines' = html_lines \o (IF in_list THEN <<>> ELSE <<"<ul>">>)
                                   \o Element("li", line.content)
               /\ in_list' = TRUE
          ELSE /\ html_lines' = html_lines \o CloseList(in_list)
                                   \o Element("p", line.content)
               /\ in_list' = FALSE
  /\ UNCHANGED <<lines, mdpc, mdOthers>>

\* lines 144-147: the list still open is closed, the output is returned
MdReturn ==
  /\ mdpc = "loop"
  /\ mdi = Len(lines)
  /\ html_lines' = html_lines \o (IF in_list THEN <<"</ul>">> ELSE <<>>)
  /\ in_list' = FALSE
  /\ mdpc' = "returned"
  /\ UNCHANGED <<lines, mdi, mdOthers>>

(***************************************************************************)
(* _fetch_single_feed and fetch_all_news (app/news_scraper.py 22-67).      *)
(* A feed either fails (the fetch, the parse or the reading of an entry    *)
(* raises) or delivers a list of entries; an entry is its link, "" when it *)
(* has none, and its published string, a number standing for its rank in   *)
(* string order.                                                           *)
(***************************************************************************)
MaxEntries == 2
ENTRY_CAP == 15

\* the first two of the six configured sources, in configuration order
RSS_SOURCES == <<"Letting Agent Today", "Property Industry Eye">>
SourceIx == 1..Len(RSS_SOURCES)

FeedEntries ==
  {[link |-> "", published |-> 1], [link |-> "a", published |-> 1],
   [link |-> "a", published |-> 2], [link |-> "b", published |-> 1]}
FeedError == [ok |-> FALSE, entries |-> <<>>]
FeedOutcomes ==
  {FeedError} \cup {[ok |-> TRUE, entries |-> e] : e \in SeqsUpTo(FeedEntries, MaxEntries)}

FeedReturned(articles) == [raised |-> FALSE, articles |-> articles]
FeedRaised == [raised |-> TRUE, articles |-> <<>>]

Article(source, entry) ==
  [url |-> entry.link, source |-> source, published_date |-> entry.published]

\* a fetch without the try/except
_fetch_single_feed_unguarded(source, outcome) ==
  IF ~outcome.ok THEN FeedRaised
  ELSE FeedReturned([i \in 1..Len(outcome.entries) |-> Article(source, outcome.entries[i])])

\* _fetch_single_feed (22-50): the first 15 entries as articles; [] when
\* anything raised
_fetch_single_feed(source, outcome) ==
  IF ~outcome.ok THEN FeedReturned(<<>>)
  ELSE LET n == IF Len(outcome.entries) < ENTRY_CAP THEN Len(outcome.entries) ELSE ENTRY_CAP IN
         FeedReturned([i \in 1..n |-> Article(source, outcome.entries[i])])

RECURSIVE AddAll(_, _)
\* a merge that keeps every article
AddAll(acc, articles) ==
  IF articles = <<>> THEN acc
  ELSE AddAll([all |-> Append(acc.all, Head(articles)),
               seen |-> acc.seen \cup {Head(articles).url}], Tail(articles))

RECURSIVE AddNew(_, _)
\* lines 60-64: an article is kept when its url is non-empty and not seen
AddNew(acc, articles) ==
  IF articles = <<>> THEN acc
  ELSE LET a == Head(articles) IN
         IF a.url # "" /\ a.url \notin acc.seen
         THEN AddNew([all |-> Append(acc.all, a), seen |-> acc.seen \cup {a.url}],
                     Tail(articles))
         ELSE AddNew(acc, Tail(articles))

RECURSIVE InsertDesc(_, _)
\* a goes after the articles whose key is not smaller
InsertDesc(sorted, a) ==
  IF sorted = <<>> THEN <<a>>
  ELSE IF Head(sorted).published_date >= a.published_date
       THEN <<Head(sorted)>> \o InsertDesc(Tail(sorted), a)
       ELSE <<a>> \o sorted

RECURSIVE SortDesc(_)
\* line 66: list.sort(key=published_date, reverse=True), which is stable
SortDesc(as) ==
  IF as = <<>> THEN <<>>
  ELSE InsertDesc(SortDesc(SubSeq(as, 1, Len(as) - 1)), as[Len(as)])

InitNews ==
  /\ feeds \in [SourceIx -> FeedOutcomes]
  /\ nsrc = 0
  /\ all_articles = <<>>
  /\ seen_urls = {}
  /\ npc = "loop"

IdleNews ==
  /\ feeds = [i \in SourceIx |-> FeedError]
  /\ nsrc = 0
  /\ all_articles = <<>>
  /\ seen_urls = {}
  /\ npc = "returned"

newsOthers == <<parseVars, taskVars, digestVars, liVars, reportVars, served, bstart, stats,
                windowVars, mdVars, moreVars>>

\* lines 58-64: one source is fetched and its articles are merged
NewsSource ==
  /\ npc = "loop"
  /\ nsrc < Len(RSS_SOURCES)
  /\ LET r == _fetch_single_feed(RSS_SOURCES[nsrc + 1], feeds[nsrc + 1]) IN
       IF r.raised
       THEN /\ npc' = "raised"
            /\ UNCHANGED <<nsrc, all_articles, seen_urls>>
       ELSE LET acc == AddNew([all |-> all_articles, seen |-> seen_urls], r.articles) IN
              /\ all_articles' = acc.all
              /\ seen_urls' = acc.seen
              /\ nsrc' = nsrc + 1
              /\ npc' = npc
  /\ UNCHANGED <<feeds, newsOthers>>

\* lines 66-67: sort and return
NewsReturn ==
  /\ npc = "loop"
  /\ nsrc = Len(RSS_SOURCES)
  /\ all_articles' = SortDesc(all_articles)
  /\ npc' = "returned"
  /\ UNCHANGED <<feeds, nsrc, seen_urls, newsOthers>>

\* the variables of the sections above this one
oldVars == <<parseVars, taskVars, digestVars, liVars, reportVars, served, bstart, stats,
             windowVars, mdVars, newsVars>>

(***************************************************************************)
(* _get_token and _refresh_token_direct (app/outlook.py 39-95).  The       *)
(* inputs are the two environment variables and what each collaborator     *)
(* call does.                                                              *)
(***************************************************************************)
\* the token endpoint's answer to the refresh-token exchange (45-58): a
\* token, an empty token, a refusal, or no answer (the request raises)
DirectOutcomes == {"token", "empty", "rejected", "raised"}
\* acquire_token_silent (69): a result with a token, None, or an error dict
SilentOutcomes == {"token", "none", "error"}

TokenInputs ==
  [refresh_env : BOOLEAN, cache_env : BOOLEAN, direct : DirectOutcomes,
   accounts : BOOLEAN, silent : SilentOutcomes, flow : BOOLEAN, device : BOOLEAN]

NoToken == [steps |-> <<>>, token |-> "none", error |-> "none"]

InitToken ==
  /\ tkin \in TokenInputs
  /\ tkpc = "direct"
  /\ tkout = NoToken

IdleToken ==
  /\ tkin = [refresh_env |-> FALSE, cache_env |-> FALSE, direct |-> "rejected",
             accounts |-> FALSE, silent |-> "none", flow |-> FALSE, device |-> FALSE]
  /\ tkpc = "returned"
  /\ tkout = NoToken

tokenOthers == <<oldVars, mailVars, chatVars>>

\* a guard that looks at MS_REFRESH_TOKEN only
headless_refresh_only == tkin.refresh_env
\* line 75: os.getenv("MS_REFRESH_TOKEN") or os.getenv("MS_TOKEN_CACHE")
headless == tkin.refresh_env \/ tkin.cache_env

\* lines 62-64 with _refresh_token_direct (39-58)
TokenDirect ==
  /\ tkpc = "direct"
  /\ IF ~tkin.refresh_env
     THEN /\ tkpc' = "silent"
          /\ UNCHANGED tkout
     ELSE LET out == [tkout EXCEPT !.steps = Append(@, "direct")] IN
            CASE tkin.direct = "token" ->
                   /\ tkout' = [out EXCEPT !.token = "direct"]
                   /\ tkpc' = "returned"
              [] tkin.direct = "raised" ->
                   /\ tkout' = [out EXCEPT !.error = "transport"]
                   /\ tkpc' = "raised"
              [] OTHER ->
                   /\ tkout' = out
                   /\ tkpc' = "silent"
  /\ UNCHANGED <<tkin, tokenOthers>>

\* lines 66-72: silent acquisition for the first cached account
TokenSilent ==
  /\ tkpc = "silent"
  /\ IF ~tkin.accounts
     THEN /\ tkpc' = "guard"
          /\ UNCHANGED tkout
     ELSE LET out == [tkout EXCEPT !.steps = Append(@, "silent")] IN
            IF tkin.silent = "token"
            THEN /\ tkout' = [out EXCEPT !.token = "silent"]
                 /\ tkpc' = "returned"
            ELSE /\ tkout' = out
                 /\ tkpc' = "guard"
  /\ UNCHANGED <<tkin, tokenOthers>>

\* lines 74-79: no device flow where no terminal is attached
TokenGuard ==
  /\ tkpc = "guard"
  /\ IF headless
     THEN /\ tkout' = [tkout EXCEPT !.error = "reauthenticate"]
          /\ tkpc' = "raised"
     ELSE /\ tkpc' = "flow"
          /\ UNCHANGED tkout
  /\ UNCHANGED <<tkin, tokenOthers>>

\* lines 82-84: initiate_device_flow
TokenFlow ==
  /\ tkpc = "flow"
  /\ LET out == [tkout EXCEPT !.steps = Append(@, "device")] IN
       IF tkin.flow
       THEN /\ tkout' = out
            /\ tkpc' = "device"
       ELSE /\ tkout' = [out EXCEPT !.error = "device_flow_failed"]
            /\ tkpc' = "raised"
  /\ UNCHANGED <<tkin, tokenOthers>>

\* lines 86-93: acquire_token_by_device_flow
TokenDevice ==
  /\ tkpc = "device"
  /\ IF tkin.device
     THEN /\ tkout' = [tkout EXCEPT !.token = "device"]
          /\ tkpc' = "returned"
     ELSE /\ tkout' = [tkout EXCEPT !.error = "auth_failed"]
          /\ tkpc' = "raised"
  /\ UNCHANGED <<tkin, tokenOthers>>

(***************************************************************************)
(* get_emails (app/outlook.py 102-129): the messages of a received-time    *)
(* window, fetched page by page from the mailbox collaborator.             *)
(***************************************************************************)
MaxMailPages == 3
MaxPageMsgs == 1
MsgIds == 1..2
\* the url of a request: the messages endpoint (line 108) or a link taken
\* from "@odata.nextLink"; NoLink is a response without the key
BaseUrl == 0
NextLinks == 1..2
NoLink == -1
MailError == [value |-> <<>>, next |-> NoLink, ok |-> FALSE]
MailPages == [value : SeqsUpTo(MsgIds, MaxPageMsgs), next : NextLinks \cup {NoLink}, ok : {TRUE}]

IdleMail ==
  /\ mpages = <<>>
  /\ murl = NoLink
  /\ mparams = FALSE
  /\ mlog = <<>>
  /\ all_emails = <<>>
  /\ mpc = "returned"

\* lines 107-115: url is the endpoint, params carry $filter, $select,
\* $orderby and $top, all_emails = []
InitMail ==
  /\ mpages = <<>>
  /\ murl = BaseUrl
  /\ mparams = TRUE
  /\ mlog = <<>>
  /\ all_emails = <<>>
  /\ mpc = "request"

mailOthers == <<oldVars, tokenVars, chatVars>>

\* lines 117-119: requests.get(url, params=params, timeout=30) and
\* raise_for_status(); the collaborator answers with a page or an error
\* status, and hands out at most MaxMailPages - 1 pages that carry a link
MailRequest ==
  /\ mpc = "request"
  /\ mlog' = Append(mlog, [url |-> murl, params |-> mparams])
  /\ \E r \in MailPages \cup {MailError} :
       /\ r.next # NoLink => Len(mpages) + 1 < MaxMailPages
       /\ mpages' = Append(mpages, r)
       /\ mpc' = IF r.ok THEN "page" ELSE "raised"
  /\ UNCHANGED <<murl, mparams, all_emails, mailOthers>>

\* a page handler that keeps the parameters of the first request
MailPageKeepParams ==
  /\ mpc = "page"
  /\ LET data == mpages[Len(mpages)] IN
       /\ all_emails' = all_emails \o data.value
       /\ murl' = data.next
       /\ mpc' = IF data.next = NoLink THEN "returned" ELSE "request"
  /\ UNCHANGED <<mpages, mparams, mlog, mailOthers>>

\* lines 120-127: every message of data["value"] is appended, url becomes
\* the page's "@odata.nextLink", params is emptied; line 116 ends the loop
\* when url is None and line 129 returns
MailPage ==
  /\ mpc = "page"
  /\ LET data == mpages[Len(mpages)] IN
       /\ all_emails' = all_emails \o data.value
       /\ murl' = data.next
       /\ mpc' = IF data.next = NoLink THEN "returned" ELSE "request"
  /\ mparams' = FALSE
  /\ UNCHANGED <<mpages, mlog, mailOthers>>

(***************************************************************************)
(* POST /api/ask (app/web.py 152-240): a question about the stored reports *)
(* is answered by the LLM; the question and the answer are kept as         *)
(* ChatMessage rows (app/models.py 26-33).                                 *)
(***************************************************************************)
MaxChat == 4
AskReqs == {1, 2}
Sessions == {"default", "s2"}
\* the "question" field of the request body
Questions == {"", " ", "q"}
\* str.strip() on those values
strip(q) == IF q = " " THEN "" ELSE q

AskIdle == [session_id |-> "none", question |-> ""]
ChatMessage(s, role, r) == [session_id |-> s, role |-> role, req |-> r]

IdleChat ==
  /\ chat = <<>>
  /\ has_reports = FALSE
  /\ cpc = [r \in AskReqs |-> "idle"]
  /\ clocal = [r \in AskReqs |-> AskIdle]

InitChat ==
  /\ chat = <<>>
  /\ has_reports \in BOOLEAN
  /\ cpc = [r \in AskReqs |-> "idle"]
  /\ clocal = [r \in AskReqs |-> AskIdle]

chatOthers == <<oldVars, tokenVars, mailVars>>

\* lines 154-217: 400 for an empty question; the fixed answer when no
\* report is found; else the history is read and the user message is added
\* and committed
AskQuestion(r, q, s) ==
  /\ cpc[r] = "idle"
  /\ Len(chat) + 2 <= MaxChat
  /\ clocal' = [clocal EXCEPT ![r] = [session_id |-> s, question |-> strip(q)]]
  /\ IF strip(q) = ""
     THEN /\ cpc' = [cpc EXCEPT ![r] = "rejected"]
          /\ UNCHANGED chat
     ELSE IF ~has_reports
     THEN /\ cpc' = [cpc EXCEPT ![r] = "returned"]
          /\ UNCHANGED chat
     ELSE /\ chat' = Append(chat, ChatMessage(s, "user", r))
          /\ cpc' = [cpc EXCEPT ![r] = "llm"]
  /\ UNCHANGED <<has_reports, chatOthers>>

\* lines 219-238: client.messages.create(...) returns an answer, which is
\* added and committed, or raises, which leaves the handler
AskLLM(r) ==
  /\ cpc[r] = "llm"
  /\ \E ok \in BOOLEAN :
       IF ok
       THEN /\ chat' = Append(chat, ChatMessage(clocal[r].session_id, "assistant", r))
            /\ cpc' = [cpc EXCEPT ![r] = "returned"]
       ELSE /\ cpc' = [cpc EXCEPT ![r] = "raised"]
            /\ UNCHANGED chat
  /\ UNCHANGED <<has_reports, clocal, chatOthers>>

\* the response is sent
AskEnd(r) ==
  /\ cpc[r] \in {"returned", "raised", "rejected"}
  /\ cpc' = [cpc EXCEPT ![r] = "idle"]
  /\ clocal' = [clocal EXCEPT ![r] = AskIdle]
  /\ UNCHANGED <<chat, has_reports, chatOthers>>

IdleMore == IdleToken /\ IdleMail /\ IdleChat
\* every section above this one at rest
IdleOld ==
  /\ IdleParse /\ IdleTasks /\ IdleDigest /\ IdleLinkedIn
  /\ IdleReport /\ served = {} /\ bstart = [b \in BatchRuns |-> EmptyRow] /\ IdleStats
  /\ IdleWindow /\ IdleMd /\ IdleNews

IdlePure == IdleWindow /\ IdleMd /\ IdleNews /\ IdleMore

IdleExt ==
  /\ IdleReport
  /\ served = {}
  /\ bstart = [b \in BatchRuns |-> EmptyRow]
  /\ IdleStats
  /\ IdlePure

\* specifications ----------------------------------------------------------
InitSpecParse == InitParse /\ IdleTasks /\ IdleDigest /\ IdleLinkedIn /\ IdleExt
NextParse == ParseDrafts
SpecParse == InitSpecParse /\ [][NextParse]_vars

InitSpecTasks == IdleParse /\ InitTasks /\ IdleDigest /\ IdleLinkedIn /\ IdleExt
NextTasks == get_completed_tasks \/ get_upcoming_tasks
SpecTasks == InitSpecTasks /\ [][NextTasks]_vars

InitSpecDigest == IdleParse /\ IdleTasks /\ IdleDigest /\ IdleLinkedIn /\ IdleExt
NextDigest ==
  \/ \E c \in DigestCallers : DigestCheck(c)
  \/ \E c \in DigestCallers : DigestFetch(c)
  \/ \E c \in DigestCallers : DigestSummarise(c)
  \/ \E c \in DigestCallers : DigestSave(c)
  \/ \E c \in DigestCallers : DigestEnd(c)
  \/ NextDate
SpecDigest == InitSpecDigest /\ [][NextDigest]_vars

\* the steps of a run on a week that exists
BatchStepOnWeek(b) ==
  \/ \E w \in Weeks : BatchStart(b, w)
  \/ BatchLoop(b)
  \/ BatchSelect(b)
  \/ BatchRecycle(b)
  \/ BatchInsertRecycled(b)
  \/ BatchFillRecycled(b)
  \/ BatchGenerate(b)
  \/ BatchInsert(b)
  \/ BatchFill(b)
  \/ BatchEnd(b)

\* one batch run at a time on the seeded weeks, with every handler
Init == IdleParse /\ IdleTasks /\ IdleDigest /\ InitLinkedIn /\ IdleExt
Next ==
  \/ \E b \in SeqRuns : BatchStepOnWeek(b)
  \/ \E p \in ReqPosts, w \in Weeks, d \in ReqDays : assign_post_to_day(p, w, d)
  \/ \E p \in ReqPosts : mark_recyclable(p)
  \/ linkedin_save_post
  \/ \E p \in StatusPosts : linkedin_approve(p)
  \/ \E p \in StatusPosts, s \in Statuses : linkedin_update_post(p, s)
  \/ \E p \in ReqPosts : linkedin_reject(p)
  \/ Tick
Spec == Init /\ [][Next]_vars

\* one batch run at a time on weeks that do not exist yet
InitSpecFresh == IdleParse /\ IdleTasks /\ IdleDigest /\ InitFresh /\ IdleExt
NextFresh ==
  \/ \E b \in SeqRuns, w \in FreshWeeks : BatchStart(b, w)
  \/ \E b \in SeqRuns : BatchCreateWeek(b)
  \/ \E b \in SeqRuns : BatchLoop(b)
  \/ \E b \in SeqRuns : BatchSelect(b)
  \/ \E b \in SeqRuns : BatchRecycle(b)
  \/ \E b \in SeqRuns : BatchInsertRecycled(b)
  \/ \E b \in SeqRuns : BatchFillRecycled(b)
  \/ \E b \in SeqRuns : BatchGenerate(b)
  \/ \E b \in SeqRuns : BatchInsert(b)
  \/ \E b \in SeqRuns : BatchFill(b)
  \/ \E b \in SeqRuns : BatchEnd(b)
  \/ \E p \in FreshAssigned, w \in FreshWeeks, d \in FreshDays : assign_post_to_day(p, w, d)
  \/ \E p \in RaceMarked : mark_recyclable(p)
  \/ Tick
SpecFresh == InitSpecFresh /\ [][NextFresh]_vars

\* the triggers of generate_weekly_report
InitSpecReport == IdleParse /\ IdleTasks /\ IdleDigest /\ IdleLinkedIn /\ IdleExt
NextReport ==
  \/ \E c \in ReportCallers : ReportStart(c)
  \/ \E a \in AuthHeaders : api_generate(a)
  \/ \E c \in ReportCallers : ReportCall(c)
  \/ \E c \in ReportCallers : ReportSave(c)
  \/ \E c \in ReportCallers : ReportEnd(c)
  \/ NextWeek
SpecReport == InitSpecReport /\ [][NextReport]_vars

\* the write endpoints under requests with and without the secret; no post
\* is recyclable here, so a batch run generates
InitSpecAuth == IdleParse /\ IdleTasks /\ IdleDigest /\ InitLinkedIn /\ IdleExt
NextAuth ==
  \/ \E a \in AuthHeaders : api_generate(a)
  \/ \E c \in AuthReportCallers : ReportCall(c)
  \/ \E c \in AuthReportCallers : ReportSave(c)
  \/ \E c \in AuthReportCallers : ReportEnd(c)
  \/ \E b \in AuthRuns, w \in AuthWeeks, a \in AuthHeaders : linkedin_generate_week(b, w, a)
  \/ \E b \in AuthRuns : BatchLoop(b)
  \/ \E b \in AuthRuns : BatchSelect(b)
  \/ \E b \in AuthRuns : BatchGenerate(b)
  \/ \E b \in AuthRuns : BatchInsert(b)
  \/ \E b \in AuthRuns : BatchFill(b)
  \/ \E b \in AuthRuns : BatchEnd(b)
  \/ \E c \in AuthDigestCallers, a \in AuthHeaders : linkedin_news_refresh(c, a)
  \/ \E c \in AuthDigestCallers : DigestFetch(c)
  \/ \E c \in AuthDigestCallers : DigestSummarise(c)
  \/ \E c \in AuthDigestCallers : DigestSave(c)
  \/ \E c \in AuthDigestCallers : DigestEnd(c)
SpecAuth == InitSpecAuth /\ [][NextAuth]_vars

\* batch runs one after another on a partly filled week, nothing else
\* writing the week
InitSpecSolo == IdleParse /\ IdleTasks /\ IdleDigest /\ InitSolo /\ IdleExt
NextSolo ==
  \/ \E b \in SeqRuns, w \in SoloWeeks : BatchBegin(b, w)
  \/ \E b \in SeqRuns : BatchLoop(b)
  \/ \E b \in SeqRuns : BatchSelect(b)
  \/ \E b \in SeqRuns : BatchRecycle(b)
  \/ \E b \in SeqRuns : BatchInsertRecycled(b)
  \/ \E b \in SeqRuns : BatchFillRecycled(b)
  \/ \E b \in SeqRuns : BatchGenerate(b)
  \/ \E b \in SeqRuns : BatchInsert(b)
  \/ \E b \in SeqRuns : BatchFill(b)
  \/ \E b \in SeqRuns : BatchEnd(b)
  \/ \E p \in SoloMarked : mark_recyclable(p)
  \/ Tick
SpecSolo == InitSpecSolo /\ [][NextSolo]_vars

\* the completed-task window at several instants
InitSpecWindow ==
  /\ IdleParse /\ IdleTasks /\ IdleDigest /\ IdleLinkedIn
  /\ IdleReport /\ served = {} /\ bstart = [b \in BatchRuns |-> EmptyRow] /\ IdleStats
  /\ InitWindow /\ IdleMd /\ IdleNews /\ IdleMore
NextWindow ==
  \/ FetchCompleted
  \/ WindowTick
SpecWindow == InitSpecWindow /\ [][NextWindow]_vars

\* _md_to_html on every text of the bounded set
InitSpecMd ==
  /\ IdleParse /\ IdleTasks /\ IdleDigest /\ IdleLinkedIn
  /\ IdleReport /\ served = {} /\ bstart = [b \in BatchRuns |-> EmptyRow] /\ IdleStats
  /\ IdleWindow /\ InitMd /\ IdleNews /\ IdleMore
NextMd ==
  \/ MdLine
  \/ MdReturn
SpecMd == InitSpecMd /\ [][NextMd]_vars

\* fetch_all_news on every combination of feed outcomes
InitSpecNews ==
  /\ IdleParse /\ IdleTasks /\ IdleDigest /\ IdleLinkedIn
  /\ IdleReport /\ served = {} /\ bstart = [b \in BatchRuns |-> EmptyRow] /\ IdleStats
  /\ IdleWindow /\ IdleMd /\ InitNews /\ IdleMore
NextNews ==
  \/ NewsSource
  \/ NewsReturn
SpecNews == InitSpecNews /\ [][NextNews]_vars

\* the post and statistics routes, on rows that exist and on rows that do
\* not
InitSpecCrud ==
  /\ IdleParse /\ IdleTasks /\ IdleDigest /\ InitLinkedIn
  /\ IdleReport /\ served = {} /\ bstart = [b \in BatchRuns |-> EmptyRow]
  /\ InitStats /\ IdlePure
NextCrud ==
  \/ \E p \in CrudPosts : linkedin_approve(p)
  \/ \E p \in CrudPosts, st \in Statuses : linkedin_update_post(p, st)
  \/ \E p \in CrudPosts : linkedin_reject(p)
  \/ \E p \in CrudPosts : mark_recyclable(p)
  \/ \E p \in CrudPosts, w \in CrudWeeks, d \in CrudDays : assign_post_to_day(p, w, d)
  \/ \E v \in StatValues : create_stat(v)
  \/ \E i \in StatIds, v \in StatValues : update_stat(i, v)
  \/ \E i \in StatIds : delete_stat(i)
SpecCrud == InitSpecCrud /\ [][NextCrud]_vars

\* _get_token for every environment and every outcome of its calls
InitSpecToken == IdleOld /\ InitToken /\ IdleMail /\ IdleChat
NextToken ==
  \/ TokenDirect
  \/ TokenSilent
  \/ TokenGuard
  \/ TokenFlow
  \/ TokenDevice
SpecToken == InitSpecToken /\ [][NextToken]_vars

\* get_emails; each request ends (timeout=30) and the loop is sequential
\* code, so the two steps are taken whenever they are enabled
InitSpecMail == IdleOld /\ IdleToken /\ InitMail /\ IdleChat
NextMail ==
  \/ MailRequest
  \/ MailPage
SpecMail == InitSpecMail /\ [][NextMail]_vars /\ WF_vars(MailRequest) /\ WF_vars(MailPage)

\* POST /api/ask served by the web workers
InitSpecAsk == IdleOld /\ IdleToken /\ IdleMail /\ InitChat
NextAsk ==
  \/ \E r \in AskReqs, q \in Questions, s \in Sessions : AskQuestion(r, q, s)
  \/ \E r \in AskReqs : AskLLM(r)
  \/ \E r \in AskReqs : AskEnd(r)
SpecAsk == InitSpecAsk /\ [][NextAsk]_vars

\* two concurrent batch runs
InitSpecRace == IdleParse /\ IdleTasks /\ IdleDigest /\ InitRace /\ IdleExt
NextRace ==
  \/ \E b \in BatchRuns, w \in RaceWeeks : BatchStart(b, w)
  \/ \E b \in BatchRuns : BatchLoop(b)
  \/ \E b \in BatchRuns : BatchSelect(b)
  \/ \E b \in BatchRuns : BatchRecycle(b)
  \/ \E b \in BatchRuns : BatchInsertRecycled(b)
  \/ \E b \in BatchRuns : BatchFillRecycled(b)
  \/ \E b \in BatchRuns : BatchGenerate(b)
  \/ \E b \in BatchRuns : BatchInsert(b)
  \/ \E b \in BatchRuns : BatchFill(b)
  \/ \E b \in BatchRuns : BatchEnd(b)
  \/ \E p \in RaceMarked : mark_recyclable(p)
  \/ \E p \in RaceRejected : linkedin_reject(p)
  \/ Tick
SpecRace == InitSpecRace /\ [][NextRace]_vars

\* two concurrent batch runs for one week; posts are only marked recyclable
\* and aged, never assigned or rejected
InitSpecPair == IdleParse /\ IdleTasks /\ IdleDigest /\ InitRace /\ IdleExt
NextPair ==
  \/ \E b \in BatchRuns, w \in RaceWeeks : BatchStart(b, w)
  \/ \E b \in BatchRuns : BatchLoop(b)
  \/ \E b \in BatchRuns : BatchSelect(b)
  \/ \E b \in BatchRuns : BatchRecycle(b)
  \/ \E b \in BatchRuns : BatchInsertRecycled(b)
  \/ \E b \in BatchRuns : BatchFillRecycled(b)
  \/ \E b \in BatchRuns : BatchGenerate(b)
  \/ \E b \in BatchRuns : BatchInsert(b)
  \/ \E b \in BatchRuns : BatchFill(b)
  \/ \E b \in BatchRuns : BatchEnd(b)
  \/ \E p \in RaceMarked : mark_recyclable(p)
  \/ Tick
SpecPair == InitSpecPair /\ [][NextPair]_vars

(***************************************************************************)
(* Properties of _parse_drafts (SpecParse)                                 *)
(***************************************************************************)

\* C5: for every model output text, _parse_drafts returns a list of one or
\* more strings and never raises.
C5_AlwaysNonEmptyList ==
  ppc = "done" =>
    /\ parsed.kind = "return"
    /\ parsed.value.t = "list"
    /\ Len(parsed.value.v) >= 1

\* the array a "drafts" member holds
DraftsArray(m) == IF m = "KD" THEN ThreeDrafts ELSE <<>>
ArrayMembers == {"KD", "KE"}
NoBrace(s) == \A i \in 1..Len(s) : s[i] \notin {"LB", "RB"}

\* C6: the three-step policy of _parse_drafts. (1) A text that is exactly
\* a JSON object with a drafts array returns that array. (2) The same
\* object with prose before and after it returns the same array, taken
\* from the span between the first { and the last }. (3) A text that is
\* not JSON and has no brace-delimited span returns the one-element list
\* holding the raw text.
C6_ThreeStepPolicy ==
  ppc = "done" =>
    /\ \A m \in ArrayMembers :
         text = <<"LB", m, "RB">> => parsed = Returned(PyList(DraftsArray(m)))
    /\ \A m \in ArrayMembers : \A i \in 1..Len(text) :
         ( /\ i + 2 <= Len(text)
           /\ SubSeq(text, i, i + 2) = <<"LB", m, "RB">>
           /\ NoBrace(SubSeq(text, 1, i - 1))
           /\ NoBrace(SubSeq(text, i + 3, Len(text))) )
         => /\ parsed = Returned(PyList(DraftsArray(m)))
            /\ BraceSpan(text) = <<"LB", m, "RB">>
    /\ (json_loads(text) = JsonError /\ ~HasBraceSpan(text))
         => parsed = Returned(PyList(<<text>>))

\* C6 witness: the drafts object wrapped in prose on both sides was parsed
C6_Witness ==
  /\ ppc = "done"
  /\ text = <<"W", "LB", "KD", "RB", "W">>
  /\ parsed = Returned(PyList(ThreeDrafts))

(***************************************************************************)
(* Properties of the ClickUp pagination (SpecTasks)                        *)
(***************************************************************************)

\* the pages the collaborator served before the first empty page or error
RECURSIVE ServedPages(_)
ServedPages(rs) ==
  IF rs = <<>> \/ ~Head(rs).ok \/ Head(rs).tasks = <<>> THEN <<>>
  ELSE <<Head(rs).tasks>> \o ServedPages(Tail(rs))

ReturnedTasks == Flatten(ServedPages(responses))
ReturnedIds == {ReturnedTasks[i].id : i \in 1..Len(ReturnedTasks)}
OccurrencesOf(id) == Cardinality({i \in 1..Len(all_tasks) : all_tasks[i].url = id})
CountUp(n) == [i \in 1..n |-> i - 1]
FirstIndexOf(id) ==
  CHOOSE i \in 1..Len(ReturnedTasks) :
    ReturnedTasks[i].id = id /\ \A j \in 1..(i-1) : ReturnedTasks[j].id # id

\* C7 as stated: pages 0, 1, 2, ... are requested until the first empty
\* page, and every task returned on any page appears exactly once in the
\* aggregated result, also when pages repeat a task.
C7_EachTaskExactlyOnce ==
  (tpc = "done" /\ fn = "completed") =>
    /\ requested = CountUp(Len(ServedPages(responses)) + 1)
    /\ \A id \in ReturnedIds : OccurrencesOf(id) = 1

\* C7 amended: pages 0, 1, 2, ... are requested until the first empty page,
\* and the aggregated result is the concatenation of the served pages in
\* order: a task appears once for each time the collaborator returned it.
C7_EveryOccurrenceKept ==
  (tpc = "done" /\ fn = "completed") =>
    /\ requested = CountUp(Len(ServedPages(responses)) + 1)
    /\ Len(all_tasks) = Len(ReturnedTasks)
    /\ \A i \in 1..Len(ReturnedTasks) : all_tasks[i] = CompletedRecord(ReturnedTasks[i])

\* C7 witness: a finished completed-task fetch over two pages that repeat a task
C7_Witness ==
  /\ tpc = "done"
  /\ fn = "completed"
  /\ requested = <<0, 1, 2>>
  /\ \E id \in ReturnedIds : OccurrencesOf(id) = 2

\* C8: get_upcoming_tasks keeps exactly one record per distinct task id
\* returned, the first occurrence.
C8_UpcomingDedupById ==
  (tpc = "done" /\ fn = "upcoming") =>
    /\ Len(all_tasks) = Cardinality(ReturnedIds)
    /\ \A id \in ReturnedIds :
         /\ OccurrencesOf(id) = 1
         /\ \E i \in 1..Len(all_tasks) :
              all_tasks[i] = UpcomingRecord(ReturnedTasks[FirstIndexOf(id)])

\* C8 witness: an id returned on two pages with different payloads, kept once
C8_Witness ==
  /\ tpc = "done"
  /\ fn = "upcoming"
  /\ requested = <<0, 1, 2>>
  /\ \E i, j \in 1..Len(ReturnedTasks) :
       /\ i < j
       /\ ReturnedTasks[i].id = ReturnedTasks[j].id
       /\ ReturnedTasks[i].name # ReturnedTasks[j].name
  /\ Len(all_tasks) < Len(ReturnedTasks)

(***************************************************************************)
(* Properties of run_daily_digest (SpecDigest)                             *)
(***************************************************************************)

TodayHasDigest == \E i \in 1..Len(digests) : digests[i].date = today

\* C2: an invocation of run_daily_digest that begins when a row for today's
\* date exists returns that row, unchanged, without an RSS fetch, an LLM
\* call or a write, and the table keeps its rows; all that is left to the
\* invocation is to hand the row to its caller.
C2_ExistingDigestReturned ==
  [][\A c \in DigestCallers :
       /\ (dpc[c] = "idle" /\ dpc'[c] # "idle" /\ TodayHasDigest) =>
            /\ dpc'[c] = "returned"
            /\ digests' = digests
            /\ dlocal'[c].ret \in 1..Len(digests)
            /\ digests[dlocal'[c].ret].date = today
            /\ dlocal'[c].seen = digests[dlocal'[c].ret]
            /\ dlocal'[c].fetches = 0
            /\ dlocal'[c].llm = 0
            /\ ~dlocal'[c].wrote
       /\ (dpc[c] = "returned" /\ dlocal[c].existing # 0 /\ dpc'[c] # dpc[c]) =>
            /\ dpc'[c] = "idle"
            /\ digests' = digests
            /\ digests[dlocal[c].ret] = dlocal[c].seen
    ]_vars

\* C2 witness: an invocation returned the row another invocation had saved
C2_Witness ==
  \E c \in DigestCallers :
    /\ dpc[c] = "returned"
    /\ dlocal[c].existing # 0
    /\ dlocal[c].ret = dlocal[c].existing
    /\ digests[dlocal[c].ret].summary # c
    /\ dlocal[c].fetches = 0

\* C9: the news_digests table holds at most one row per date, whatever the
\* interleaving of the scheduled job and the manual refresh.
C9_OneDigestPerDate ==
  \A i, j \in 1..Len(digests) : digests[i].date = digests[j].date => i = j

\* C9 witness: both invocations found no row for the same date, one saved
\* its row and the insert of the other was refused
C9_Witness ==
  \E c1, c2 \in DigestCallers :
    /\ c1 # c2
    /\ dlocal[c1].wrote
    /\ dlocal[c1].today = dlocal[c2].today
    /\ dlocal[c2].existing = 0
    /\ dlocal[c2].result = "dict"
    /\ dpc[c2] = "raised"

(***************************************************************************)
(* Properties of generate_week_batch and the slot handlers                 *)
(***************************************************************************)

\* a step of batch run b
BatchMoves(b) == bpc'[b] # bpc[b]

\* C1: a run of generate_week_batch that finds all seven slots of its week
\* filled writes no post and no week and makes no LLM call: it only ends.
\* So a run right after one that filled the week leaves the store as it was.
C1_FullWeekNoWrites ==
  [][\A b \in BatchRuns :
       (blocal[b].full /\ BatchMoves(b)) =>
         /\ posts' = posts
         /\ weeks' = weeks
         /\ ~blocal'[b].called
         /\ bpc'[b] \in {"done", "idle"}
    ]_vars

\* C1 witness: a run on a full week, whose sunday post an earlier run
\* recycled, has finished
C1_Witness ==
  \E b \in BatchRuns :
    /\ bpc[b] = "done"
    /\ blocal[b].full
    /\ ~blocal[b].called
    /\ \E p \in PostIds :
         /\ weeks[blocal[b].week].slot[DayOf("sunday")] = p
         /\ posts[p].parent_post_id # 0

\* C3: the post a run takes as the original of a recycle is, when it is
\* selected, recyclable, recycled fewer than 2 times and created 14 days
\* ago or earlier.
C3_RecycleEligibility ==
  [][\A b \in BatchRuns :
       (bpc[b] = "select" /\ bpc'[b] = "recycle") =>
         /\ blocal'[b].original \in PostIds
         /\ posts[blocal'[b].original].exists
         /\ posts[blocal'[b].original].is_recyclable
         /\ posts[blocal'[b].original].recycle_count < 2
         /\ posts[blocal'[b].original].created_at + 14 <= now
    ]_vars

\* C3 witness: a run selected an original while another post that exists
\* was not eligible
C3_Witness ==
  \E b \in BatchRuns :
    /\ bpc[b] = "recycle"
    /\ blocal[b].original \in PostIds
    /\ \E q \in PostIds : q # blocal[b].original /\ posts[q].exists /\ ~posts[q].is_recyclable

\* C4: no post has a recycle_count above 2.
C4_RecycleCountAtMostTwo ==
  \A p \in PostIds : posts[p].exists => posts[p].recycle_count <= 2

\* the changes a slot write may make: one slot of one week
OnlySlotChanged(w, d, post_id) ==
  /\ weeks'[w].slot[d] = post_id
  /\ \A x \in Weeks : \A e \in Days :
       (x # w \/ e # d) => weeks'[x].slot[e] = weeks[x].slot[e]

\* C10: assign_post_to_day and each slot fill of generate_week_batch set
\* the named day's slot of the named week and leave the other six slots of
\* that week and every slot of every other week as they were.
C10_SlotsIndependent ==
  [][/\ \A p \in PostIds, w \in Weeks, d \in Days :
          assign_post_to_day(p, w, d) => OnlySlotChanged(w, d, p)
     /\ \A b \in BatchRuns :
          (bpc[b] \in {"fill", "fill_recycled"} /\ BatchMoves(b)) =>
            OnlySlotChanged(blocal[b].week, blocal[b].day, blocal[b].post)
    ]_vars

\* C10 witness: a week where a run filled monday and sunday with its own
\* posts around a wednesday that was assigned by hand
C10_Witness ==
  \E w \in Weeks :
    /\ weeks[w].slot[DayOf("wednesday")] = 1
    /\ weeks[w].slot[DayOf("monday")] > 2
    /\ weeks[w].slot[DayOf("sunday")] > 2
    /\ weeks[w].slot[DayOf("tuesday")] = 0

\* weekly report ------------------------------------------------------------

\* C11: after any sequence of generate_weekly_report invocations (scheduled
\* job, CLI, POST /api/generate) no two Report rows have the same week_start.
C11_OneReportPerWeek ==
  \A i, j \in 1..Len(reports) :
    i # j => reports[i].week_start # reports[j].week_start

\* C14: a Report row is persisted only by an invocation whose four external
\* calls (completed fetch, upcoming fetch, email fetch, summarization) have
\* each been made once and returned; a call that raises ends the invocation
\* without a retry or a further call, and that invocation writes no row.
C14_PersistOnlyAfterAllSucceed ==
  [][ /\ reports' # reports =>
           \E c \in ReportCallers :
             /\ rpc[c] = "save"
             /\ \A k \in ReportCalls : rlocal[c].calls[k] = 1
             /\ reports' = Append(reports, [week_start |-> rlocal[c].week_start])
      /\ \A c \in ReportCallers :
           /\ (rpc[c] \in ReportCalls /\ rpc'[c] = "raised") =>
                /\ reports' = reports
                /\ rlocal'[c].calls[rpc[c]] = 1
                /\ ~rlocal'[c].wrote
           /\ rpc[c] = "raised" =>
                /\ rpc'[c] \in {"raised", "idle"}
                /\ rpc'[c] = "raised" => rlocal'[c] = rlocal[c]
    ]_vars

\* one invocation has committed its row while another raised in the
\* summarization, having made each earlier call once
C14_Witness ==
  \E c, d \in ReportCallers :
    /\ rpc[c] = "raised"
    /\ rlocal[c].calls = [k \in ReportCalls |-> 1]
    /\ ~rlocal[c].wrote
    /\ rlocal[d].wrote
    /\ Len(reports) = 1

\* C12: two of the write endpoints require the bearer secret, POST
\* /api/generate being one of them: neither ever acts on a request whose
\* Authorization header is not the secret.
C12_TwoEndpointsRequireSecret ==
  \E P \in SUBSET WriteEndpoints :
    /\ Cardinality(P) = 2
    /\ "api_generate" \in P
    /\ P \cap served = {}

\* C13: the step that deletes an existing post leaves no slot of any week
\* holding its id, and leaves every slot that held another value as it was.
C13_RejectClearsReferences ==
  [][\A p \in PostIds :
       (posts[p].exists /\ ~posts'[p].exists) =>
         /\ posts'[p] = NoPost
         /\ \A w \in Weeks : \A d \in Days :
              /\ weeks'[w].slot[d] # p
              /\ weeks[w].slot[d] # p => weeks'[w].slot[d] = weeks[w].slot[d]
    ]_vars

\* C13 witness: post 2 was rejected while both weeks had it on sunday (a
\* run's session still shows it there); both sundays are empty again and
\* the other days still hold post 1
C13_Witness ==
  \E b \in BatchRuns :
    /\ bpc[b] # "idle"
    /\ ~blocal[b].expired
    /\ blocal[b].row[DayOf("sunday")] = 2
    /\ ~posts[2].exists
    /\ \A w \in Weeks :
         /\ weeks[w].slot[DayOf("sunday")] = 0
         /\ \A d \in Days : d # DayOf("sunday") => weeks[w].slot[d] = 1

\* the first day whose slot is empty in the stored row of week w
FirstEmpty(w) == Min({d \in Days : weeks[w].slot[d] = 0})
LLMCalls == {"generate", "recycle"}

\* C15: when the LLM call of a run raises at day k, the step writes nothing:
\* the slots before k that were filled before the run keep their value, those
\* the run filled hold a post, and the slots of k and of the later days hold
\* what they held when the run began; the run makes no further step but its
\* end.  A run makes its first LLM call at the first empty slot of the stored
\* row and calls the LLM only for days whose slot is empty.
C15_RaiseKeepsEarlierSlots ==
  [][\A b \in BatchRuns :
       LET w == blocal[b].week
           k == blocal[b].day IN
         /\ (bpc[b] \in LLMCalls /\ bpc'[b] = "raised") =>
              /\ weeks' = weeks /\ posts' = posts
              /\ \A d \in Days :
                   /\ (d >= k \/ bstart[b][d] # 0) => weeks[w].slot[d] = bstart[b][d]
                   /\ (d < k /\ weeks[w].slot[d] # bstart[b][d]) =>
                        posts[weeks[w].slot[d]].exists
         /\ bpc[b] = "raised" => (weeks' = weeks /\ bpc'[b] \in {"raised", "idle"})
         /\ (bpc[b] \in LLMCalls /\ blocal'[b].called) => weeks[w].slot[k] = 0
         /\ (bpc[b] \in LLMCalls /\ ~blocal[b].called /\ blocal'[b].called) =>
              k = FirstEmpty(w)
    ]_vars

\* C15 witness: a run that began with friday filled by an earlier run and
\* saturday empty has filled saturday and raised at sunday, which is empty
C15_Witness ==
  \E b \in BatchRuns :
    /\ bpc[b] = "raised"
    /\ blocal[b].day = DayOf("sunday")
    /\ bstart[b][DayOf("friday")] = 3
    /\ bstart[b][DayOf("saturday")] = 0
    /\ weeks[blocal[b].week].slot[DayOf("saturday")] = 4
    /\ weeks[blocal[b].week].slot[DayOf("sunday")] = 0

\* the completed-task window ------------------------------------------------

\* the bounds are those of the week the clock is in: Monday 00:00:00 and
\* Friday 23:59:59 of that week, as epoch ms
WindowIsThisWeek ==
  /\ (wres.start_ms + EpochShift) % WeekMs = 0
  /\ wres.start_ms + EpochShift <= wres.at
  /\ wres.at < wres.start_ms + EpochShift + WeekMs
  /\ wres.end_ms = wres.start_ms + 5 * DayMs - SecMs

\* C16 as stated: every task whose date_done lies in the closed range
\* [Monday 00:00:00, Friday 23:59:59] is in the result, and a task one
\* millisecond after the end is not.
C16_ClosedRangeAppears ==
  wres.fetched =>
    /\ WindowIsThisWeek
    /\ \A t \in done :
         (wres.start_ms <= t /\ t <= wres.end_ms) => t \in wres.tasks
    /\ wres.end_ms + 1 \notin wres.tasks

\* C16: the bounds passed are Monday 00:00:00 and Friday 23:59:59 of the
\* current week as epoch ms; every task whose date_done lies strictly
\* between them is in the result, and no task before the start or after the
\* end is, in particular none one millisecond after the end.
C16_OpenRangeAppears ==
  wres.fetched =>
    /\ WindowIsThisWeek
    /\ \A t \in done :
         (wres.start_ms < t /\ t < wres.end_ms) => t \in wres.tasks
    /\ \A t \in wres.tasks : wres.start_ms <= t /\ t <= wres.end_ms
    /\ wres.end_ms + 1 \notin wres.tasks

\* C16 witness: fetched in the second week with a task one millisecond
\* before the end, returned, and one a millisecond after it, not returned
C16_Witness ==
  /\ wres.fetched
  /\ wres.start_ms = epoch_ms(WeekMs)
  /\ done = {wres.end_ms - 1, wres.end_ms + 1}
  /\ wres.tasks = {wres.end_ms - 1}

\* markdown to HTML ----------------------------------------------------------

IsListTag(x) == x \in {"<ul>", "</ul>"}
\* the number of lists open after the first n outputs
OpenAfter(out, n) ==
  LET ListTags == SelectSeq(SubSeq(out, 1, n), IsListTag) IN
    Len(SelectSeq(ListTags, LAMBDA x : x = "<ul>"))
      - Len(SelectSeq(ListTags, LAMBDA x : x = "</ul>"))
BlockTags == {"<h1>", "<h2>", "<h3>", "<p>", "<br>"}

\* the list tags of an output are balanced and not nested: a <ul> only with
\* no list open, a </ul> only with one open, each <li> inside a list, each
\* header, paragraph and <br> outside, none open at the end
Balanced(out) ==
  /\ \A i \in 1..Len(out) :
       /\ out[i] = "<ul>" => OpenAfter(out, i - 1) = 0
       /\ out[i] = "</ul>" => OpenAfter(out, i - 1) = 1
       /\ out[i] = "<li>" => OpenAfter(out, i - 1) = 1
       /\ out[i] \in BlockTags => OpenAfter(out, i - 1) = 0
  /\ OpenAfter(out, Len(out)) = 0

TitleAndTwoItems ==
  <<[marker |-> "## ", content |-> "t"], [marker |-> "- ", content |-> "t"],
    [marker |-> "- ", content |-> "t"]>>
TitleAndTwoItemsHtml ==
  <<"<h2>", "t", "</h2>", "<ul>", "<li>", "t", "</li>", "<li>", "t", "</li>", "</ul>">>
ExampleConverted == lines = TitleAndTwoItems => html_lines = TitleAndTwoItemsHtml

\* no line of the input contains a list tag written out
NoLiteralListTags ==
  \A i \in 1..Len(lines) : lines[i].content \notin {"<ul>", "</ul>", "<li>", "</li>"}

\* C17 as stated: for every input text the output's list tags are balanced
\* and not nested, and '## Title\n- item one\n- item two' gives an <h2>, then
\* one <ul> with two <li>, then </ul>.
C17_BalancedForEveryInput ==
  mdpc = "returned" => (Balanced(html_lines) /\ ExampleConverted)

\* C17: for every input text in which no list tag is written out, the
\* output's list tags are balanced and not nested (each <li> inside an open
\* <ul>, the list closed before any header, paragraph or <br>, none open at
\* the end); the example converts as stated.
C17_BalancedWithoutLiteralTags ==
  mdpc = "returned" =>
    /\ NoLiteralListTags => Balanced(html_lines)
    /\ ExampleConverted

\* C17 witness: the example has been converted
C17_Witness ==
  /\ mdpc = "returned"
  /\ lines = TitleAndTwoItems
  /\ html_lines = TitleAndTwoItemsHtml

\* news ----------------------------------------------------------------------

\* the articles of all sources in configuration order, then feed order
FetchedArticles ==
  Flatten([i \in SourceIx |-> _fetch_single_feed(RSS_SOURCES[i], feeds[i]).articles])
ArticlesOf(seq) == {seq[i] : i \in 1..Len(seq)}

\* C18: a source whose feed fails contributes the empty list and the run goes
\* on: it never ends with the error, and its result holds, for every link of
\* every other source's articles, an article with that link.
C18_FailedSourceSkipped ==
  /\ npc # "raised"
  /\ \A i \in SourceIx :
       ~feeds[i].ok => _fetch_single_feed(RSS_SOURCES[i], feeds[i]) = FeedReturned(<<>>)
  /\ npc = "returned" =>
       \A i \in SourceIx : \A k \in 1..Len(feeds[i].entries) :
         feeds[i].entries[k].link # "" =>
           \E a \in ArticlesOf(all_articles) : a.url = feeds[i].entries[k].link

\* C18 witness: the first source failed and the result is the two articles
\* of the second
C18_Witness ==
  /\ npc = "returned"
  /\ ~feeds[1].ok
  /\ Len(feeds[2].entries) = 2
  /\ Len(all_articles) = 2
  /\ \A a \in ArticlesOf(all_articles) : a.source = RSS_SOURCES[2]

\* C19: the result holds exactly one article for each distinct link among the
\* fetched articles, the first one in source order then feed order, and
\* nothing else; every fetched link is in the result.  An entry without a
\* link has none to represent and is left out.
C19_FirstOccurrencePerLink ==
  npc = "returned" =>
    LET F == FetchedArticles
        Links == {F[i].url : i \in 1..Len(F)} \ {""} IN
      /\ \A u \in Links :
           LET first == CHOOSE i \in 1..Len(F) :
                          F[i].url = u /\ \A j \in 1..(i - 1) : F[j].url # u IN
             /\ Cardinality({k \in 1..Len(all_articles) : all_articles[k].url = u}) = 1
             /\ F[first] \in ArticlesOf(all_articles)
      /\ \A a \in ArticlesOf(all_articles) : a.url \in Links
      /\ Len(all_articles) = Cardinality(Links)

\* C19 witness: both sources carry link a with different dates, the second
\* also b; the result has the first source's a and b
C19_Witness ==
  /\ npc = "returned"
  /\ feeds[1].entries = <<[link |-> "a", published |-> 1]>>
  /\ feeds[2].entries = <<[link |-> "a", published |-> 2], [link |-> "b", published |-> 1]>>
  /\ all_articles = <<Article(RSS_SOURCES[1], [link |-> "a", published |-> 1]),
                      Article(RSS_SOURCES[2], [link |-> "b", published |-> 1])>>

\* rows that do not exist ------------------------------------------------------

Store == <<posts, weeks, stats>>
Absent == {404}

\* C20: an operation addressed to a stat or post id that has no row (stat
\* update and delete; post approve, reject, edit, regenerate, recycle and
\* assign) answers with an absent result (None, False, 404) and leaves the
\* posts, the weeks and the stats as they were.
C20_MissingIdIsNoOp ==
  [][/\ \A p \in PostIds :
          ~posts[p].exists =>
            /\ linkedin_approve_status(p) \in Absent
            /\ linkedin_reject_status(p) \in Absent
            /\ linkedin_regenerate_status(p) \in Absent
            /\ linkedin_update_post_status(p) \in Absent
            /\ (linkedin_approve(p) \/ linkedin_reject(p) \/ mark_recyclable(p)
                  \/ \E st \in Statuses : linkedin_update_post(p, st)) =>
                 UNCHANGED Store
            /\ \A w \in Weeks, d \in Days :
                 assign_post_to_day(p, w, d) =>
                   /\ UNCHANGED Store
                   /\ linkedin_assign_status(p, w, d) \in Absent
                   /\ linkedin_recycle_status(p) \in Absent
     /\ \A i \in StatIds :
          ~stats[i].exists =>
            /\ update_stat_result(i) = "None"
            /\ delete_stat_result(i) = FALSE
            /\ linkedin_stats_update_status(i) \in Absent
            /\ linkedin_stats_delete_status(i) \in Absent
            /\ (delete_stat(i) \/ \E v \in StatValues : update_stat(i, v)) =>
                 UNCHANGED Store
    ]_vars

\* the mailbox token ---------------------------------------------------------

TokenEnded == tkpc \in {"returned", "raised"}
\* a step was taken and gave no token
DirectGaveNone == ~tkin.refresh_env \/ tkin.direct \in {"empty", "rejected"}
SilentGaveNone == ~tkin.accounts \/ tkin.silent # "token"
IsPrefixOf(a, b) == Len(a) <= Len(b) /\ SubSeq(b, 1, Len(a)) = a
StepOrders ==
  {<<"direct", "silent", "device">>, <<"direct", "device">>, <<"silent", "device">>,
   <<"device">>}

ReachesDay(b) == bpc[b] = "loop" /\ bpc'[b] \in {"select", "generate"}

\* C22: a run visits the days in the order monday..sunday, and a day whose
\* slot is filled when the run reaches it is skipped: the run goes on to an
\* LLM call and a write only for a day whose stored slot is empty.
C22_FilledSlotsSkipped ==
  [][\A b \in BatchRuns :
       /\ (bpc[b] # "idle" /\ bpc'[b] # "idle") => blocal'[b].day >= blocal[b].day
       /\ ReachesDay(b) =>
            /\ weeks[blocal[b].week].slot[blocal'[b].day] = 0
            /\ \A e \in Days :
                 (blocal[b].day <= e /\ e < blocal'[b].day) =>
                   weeks[blocal[b].week].slot[e] # 0
       /\ (bpc[b] \in {"fill", "fill_recycled"} /\ BatchMoves(b)) =>
            \A e \in Days :
              e # blocal[b].day =>
                weeks'[blocal[b].week].slot[e] = weeks[blocal[b].week].slot[e]
    ]_vars

RecycleCounts == [p \in PostIds |-> posts[p].recycle_count]

\* C23: a run that fills sunday by recycling inserts a post whose
\* parent_post_id is the selected original's id, then sets the sunday slot
\* to the new post and adds exactly one to the original's recycle_count; no
\* other step of the run and no other post's count changes.
C23_RecycleLinksAndCounts ==
  [][\A b \in BatchRuns :
       BatchMoves(b) =>
         LET o == blocal[b].original IN
           /\ bpc[b] = "insert_recycled" =>
                /\ ~posts[blocal'[b].post].exists
                /\ posts'[blocal'[b].post].exists
                /\ posts'[blocal'[b].post].parent_post_id = o
                /\ blocal'[b].original = o
           /\ bpc[b] = "fill_recycled" =>
                /\ blocal[b].day = DayOf("sunday")
                /\ weeks'[blocal[b].week].slot[DayOf("sunday")] = blocal[b].post
                /\ posts[blocal[b].post].parent_post_id = o
                /\ posts'[o].recycle_count = posts[o].recycle_count + 1
                /\ \A q \in PostIds \ {o} : posts'[q].recycle_count = posts[q].recycle_count
           /\ bpc[b] # "fill_recycled" => RecycleCounts' = RecycleCounts
    ]_vars

\* C23 witness: sunday holds a post whose parent is post 1, which has been
\* recycled once
C23_Witness ==
  \E w \in Weeks : \E p \in PostIds :
    /\ weeks[w].slot[DayOf("sunday")] = p
    /\ posts[p].exists
    /\ posts[p].parent_post_id = 1
    /\ posts[1].recycle_count = 1
    /\ \A q \in PostIds \ {1} : posts[q].recycle_count = 0

Recycling == {"select", "recycle", "insert_recycled", "fill_recycled"}

\* C24: a run tries recycling only for sunday, and goes on to ordinary
\* generation when the day is not sunday, when no post is eligible, or when
\* the recycle call gave no drafts; ordinary generation stores a new post
\* with no parent and changes no recycle_count.
C24_RecycleOnlySundayElseGenerate ==
  [][\A b \in BatchRuns :
       BatchMoves(b) =>
         /\ bpc'[b] \in Recycling => DAY_ORDER[blocal'[b].day] = "sunday"
         /\ bpc[b] = "loop" /\ bpc'[b] # "done" =>
              bpc'[b] = IF DAY_ORDER[blocal'[b].day] = "sunday" THEN "select" ELSE "generate"
         /\ bpc[b] = "select" =>
              bpc'[b] = IF get_recyclable_posts = {} THEN "generate" ELSE "recycle"
         /\ bpc[b] = "recycle" => bpc'[b] \in {"generate", "insert_recycled", "raised"}
         /\ bpc'[b] = "generate" => blocal'[b].day = blocal[b].day \/ bpc[b] = "loop"
         /\ bpc[b] = "insert" =>
              /\ ~posts[blocal'[b].post].exists
              /\ posts'[blocal'[b].post].exists
              /\ posts'[blocal'[b].post].parent_post_id = 0
         /\ bpc[b] \in {"generate", "insert", "fill"} => RecycleCounts' = RecycleCounts
         /\ bpc[b] = "fill" => weeks'[blocal[b].week].slot[blocal[b].day] = blocal[b].post
    ]_vars

\* C24 witness: the recycle call for a selected original gave no drafts and
\* the sunday slot is about to take an ordinary post with no parent
C24_Witness ==
  \E b \in BatchRuns :
    /\ bpc[b] = "fill"
    /\ DAY_ORDER[blocal[b].day] = "sunday"
    /\ blocal[b].original # 0
    /\ posts[blocal[b].original].exists
    /\ posts[blocal[b].post].parent_post_id = 0
    /\ RecycleCounts = [p \in PostIds |-> 0]

RECURSIVE Concat(_)
Concat(ps) == IF ps = <<>> THEN <<>> ELSE ps[1].value \o Concat(Tail(ps))
PagesHandled == IF mpc = "page" THEN SubSeq(mpages, 1, Len(mpages) - 1) ELSE mpages
LastPageArrived == mpc = "page" /\ mpages[Len(mpages)].next = NoLink

MailFollowsLinks ==
  /\ \A k \in 1..Len(mlog) :
       /\ mlog[k].url = IF k = 1 THEN BaseUrl ELSE mpages[k - 1].next
       /\ mlog[k].params = (k = 1)
  /\ mpc # "raised" => all_emails = Concat(PagesHandled)
  /\ mpc = "returned" =>
       /\ Len(mlog) = Len(mpages)
       /\ mpages[Len(mpages)].next = NoLink
       /\ \A k \in 1..(Len(mpages) - 1) : mpages[k].next # NoLink

\* C25: get_emails requests the endpoint with the filter parameters first
\* and then each page's continuation link without them, returns the
\* messages of all pages in the order received, stops exactly at the first
\* page without a link, and returns once such a page has arrived.
C25_FollowsLinksAndReturns ==
  /\ []MailFollowsLinks
  /\ (LastPageArrived ~> mpc = "returned")
  /\ <>(mpc \in {"returned", "raised"})

\* C25 witness: three pages were fetched and their messages returned
C25_Witness ==
  /\ mpc = "returned"
  /\ Len(mpages) = MaxMailPages
  /\ Len(mlog) = MaxMailPages
  /\ \A k \in 1..Len(mpages) : mpages[k].value # <<>>
  /\ mpages[1].value # mpages[2].value

\* C26: every non-empty slot of every week references a post that exists.
C26_SlotsReferenceExistingPosts ==
  \A w \in Weeks : \A d \in Days :
    weeks[w].slot[d] # 0 => posts[weeks[w].slot[d]].exists

RunsFinished == \A b \in BatchRuns : bpc[b] \in {"idle", "done", "raised"}
Referenced(p) == \E w \in Weeks : \E d \in Days : weeks[w].slot[d] = p
SeededPosts == {1, 2}
RecycledInto(o) ==
  {w \in Weeks : LET p == weeks[w].slot[DayOf("sunday")] IN
                   p # 0 /\ posts[p].exists /\ posts[p].parent_post_id = o}

\* C27: once the interleaved runs for a week have finished, every post a
\* run created is referenced by a slot, and an original's recycle_count is
\* at most the number of sunday slots filled from it.
C27_RacingRunsFillEachSlotOnce ==
  RunsFinished =>
    /\ \A p \in PostIds \ SeededPosts : posts[p].exists => Referenced(p)
    /\ \A o \in PostIds : posts[o].exists => posts[o].recycle_count <= Cardinality(RecycledInto(o))

\* both invocations found no digest for the same date, both got their
\* articles summarised, and both have ended
BothPassedCheck(c1, c2) ==
  /\ c1 # c2
  /\ dlocal[c1].today = dlocal[c2].today
  /\ \A c \in {c1, c2} :
       /\ dpc[c] \in {"returned", "raised"}
       /\ dlocal[c].existing = 0
       /\ dlocal[c].result = "dict"

\* C28: two run_daily_digest invocations for one date that both pass the
\* existence check before either commits both return, and return the same
\* digest row.
C28_RacingDigestsReturnSameRow ==
  \A c1 \in DigestCallers : \A c2 \in DigestCallers :
    BothPassedCheck(c1, c2) =>
      /\ dpc[c1] = "returned" /\ dpc[c2] = "returned"
      /\ dlocal[c1].ret = dlocal[c2].ret

\* C29: the parent_post_id of every post is empty or the id of a post that
\* exists.
C29_ParentsExist ==
  \A p \in PostIds :
    (posts[p].exists /\ posts[p].parent_post_id # 0) => posts[posts[p].parent_post_id].exists

StoredBy(r, role) == Cardinality({i \in 1..Len(chat) : chat[i].req = r /\ chat[i].role = role})
Conversation(s) == SelectSeq(chat, LAMBDA m : m.session_id = s)
Alternates(c) == \A i \in 1..Len(c) : c[i].role = IF i % 2 = 1 THEN "user" ELSE "assistant"

\* C30: a request to /api/ask that is not waiting for the LLM has stored
\* as many user messages as assistant messages (both or neither), and the
\* messages of a session whose requests have all ended alternate user,
\* assistant.
C30_QuestionAndAnswerOrNeither ==
  /\ \A r \in AskReqs : cpc[r] # "llm" => StoredBy(r, "user") = StoredBy(r, "assistant")
  /\ (\A r \in AskReqs : cpc[r] # "llm") => \A s \in Sessions : Alternates(Conversation(s))

====
